---- MODULE Spec2Model ----
(***************************************************************************)
(* Verification model of the repository summarizer:                        *)
(*   utils/text.py, services/repo_processor.py, services/github_client.py, *)
(*   services/summarizer.py, services/llm_client.py,                       *)
(*   services/summarize_service.py and the error handlers of main.py.      *)
(*                                                                         *)
(* Short strings (paths, URLs, names) are TLA+ strings, read character by  *)
(* character with SubSeq.  File bodies and prompts can be tens of          *)
(* thousands of characters long, so a body ("text") is kept run-length     *)
(* encoded: a sequence of <<c, n>> runs, c a one-character string (or the  *)
(* token "NUL" / "CTL" for a zero byte / a control byte), n >= 1, adjacent *)
(* runs having different characters.  All the slicing, stripping and       *)
(* concatenation below is computed on that encoding exactly as Python      *)
(* computes it on the string.                                              *)
(***************************************************************************)
EXTENDS Integers, Sequences, FiniteSets, TLC

(***************************************************************************)
(* Characters                                                              *)
(***************************************************************************)
\* Printable ASCII in code-point order, preceded by tab, newline, carriage
\* return; Ord gives the order Python's str comparison uses.  The backquote
\* cannot be written in a string here; texts carry it as the token "BQ".
Alphabet ==
  "\t\n\r !\"#$%&'()*+,-./0123456789:;<=>?@ABCDEFGHIJKLMNOPQRSTUVWXYZ[\\]^_abcdefghijklmnopqrstuvwxyz{|}~"

Ch(s, i) == SubSeq(s, i, i)

Ord(c) ==
  IF c = "NUL" THEN 0 - 2
  ELSE IF c = "CTL" THEN 0 - 1
  ELSE IF c = "BQ" THEN 1000
  ELSE CHOOSE i \in 1..Len(Alphabet) : Ch(Alphabet, i) = c

UpperLetters == "ABCDEFGHIJKLMNOPQRSTUVWXYZ"
LowerLetters == "abcdefghijklmnopqrstuvwxyz"

\* str.lower() / str.upper() on one character
LowerCh(c) ==
  IF \E i \in 1..26 : Ch(UpperLetters, i) = c
  THEN Ch(LowerLetters, CHOOSE i \in 1..26 : Ch(UpperLetters, i) = c)
  ELSE c

UpperCh(c) ==
  IF \E i \in 1..26 : Ch(LowerLetters, i) = c
  THEN Ch(UpperLetters, CHOOSE i \in 1..26 : Ch(LowerLetters, i) = c)
  ELSE c

RECURSIVE LowerStr(_)
LowerStr(s) == IF s = "" THEN "" ELSE LowerCh(Ch(s, 1)) \o LowerStr(Tail(s))

RECURSIVE UpperStr(_)
UpperStr(s) == IF s = "" THEN "" ELSE UpperCh(Ch(s, 1)) \o UpperStr(Tail(s))

\* str.startswith
StartsWith(s, p) == Len(s) >= Len(p) /\ SubSeq(s, 1, Len(p)) = p

\* the characters str.strip()/rstrip()/lstrip() remove (ASCII whitespace)
WS == {" ", "\t", "\n", "\r"}

(***************************************************************************)
(* Run-length encoded texts                                                *)
(***************************************************************************)
Run(c, n) == << <<c, n>> >>

\* Recursion over a text halves it, so that its depth stays logarithmic in
\* the number of runs.
Left(t) == SubSeq(t, 1, Len(t) \div 2)
Right(t) == SubSeq(t, (Len(t) \div 2) + 1, Len(t))

\* len(text)
RECURSIVE TLen(_)
TLen(t) ==
  IF t = <<>> THEN 0
  ELSE IF Len(t) = 1 THEN t[1][2]
  ELSE TLen(Left(t)) + TLen(Right(t))

\* a + b
TCat(a, b) ==
  IF a = <<>> THEN b
  ELSE IF b = <<>> THEN a
  ELSE IF a[Len(a)][1] = b[1][1]
       THEN SubSeq(a, 1, Len(a) - 1)
            \o Run(b[1][1], a[Len(a)][2] + b[1][2])
            \o Tail(b)
       ELSE a \o b

\* a string literal as a text
RECURSIVE T(_)
T(s) ==
  IF s = "" THEN <<>>
  ELSE IF Len(s) = 1 THEN Run(s, 1)
  ELSE TCat(T(SubSeq(s, 1, Len(s) \div 2)),
            T(SubSeq(s, (Len(s) \div 2) + 1, Len(s))))

\* text[:k], k >= 0
RECURSIVE TTake(_, _)
TTake(t, k) ==
  IF k <= 0 \/ t = <<>> THEN <<>>
  ELSE IF Len(t) = 1 THEN Run(t[1][1], IF t[1][2] >= k THEN k ELSE t[1][2])
  ELSE IF TLen(Left(t)) >= k THEN TTake(Left(t), k)
  ELSE Left(t) \o TTake(Right(t), k - TLen(Left(t)))

\* text[k:], k >= 0
RECURSIVE TDrop(_, _)
TDrop(t, k) ==
  IF k <= 0 \/ t = <<>> THEN t
  ELSE IF Len(t) = 1
    THEN IF t[1][2] > k THEN Run(t[1][1], t[1][2] - k) ELSE <<>>
  ELSE IF TLen(Left(t)) > k THEN TDrop(Left(t), k) \o Right(t)
  ELSE TDrop(Right(t), k - TLen(Left(t)))

\* text[-k:], k >= 0.  Python reads -0 as 0, so text[-0:] is the whole text.
TLast(t, k) ==
  IF k = 0 THEN t
  ELSE IF k >= TLen(t) THEN t
  ELSE TDrop(t, TLen(t) - k)

\* the runs of t that are not whitespace
Inked(t) == {i \in 1..Len(t) : t[i][1] \notin WS}

\* text.rstrip()
TRStrip(t) ==
  IF Inked(t) = {} THEN <<>>
  ELSE SubSeq(t, 1, CHOOSE i \in Inked(t) : \A j \in Inked(t) : j <= i)

\* text.lstrip()
TLStrip(t) ==
  IF Inked(t) = {} THEN <<>>
  ELSE SubSeq(t, CHOOSE i \in Inked(t) : \A j \in Inked(t) : i <= j, Len(t))

TStrip(t) == TLStrip(TRStrip(t))

\* the i-th character of a text, 1-based
RECURSIVE TCharAt(_, _)
TCharAt(t, i) ==
  IF Len(t) = 1 THEN t[1][1]
  ELSE IF TLen(Left(t)) >= i THEN TCharAt(Left(t), i)
  ELSE TCharAt(Right(t), i - TLen(Left(t)))

(***************************************************************************)
(* utils/text.py                                                           *)
(***************************************************************************)
\* the elision marker "\n...\n"
Marker == T("\n...\n")

\* int(max_chars * 0.75) for max_chars >= 0 (0.75 is exact in binary)
HeadLen(max_chars) == (3 * max_chars) \div 4

truncate(text, max_chars) ==
  IF TLen(text) <= max_chars THEN text
  ELSE LET head == HeadLen(max_chars)
           tail == max_chars - head
       IN  TCat(TCat(TRStrip(TTake(text, head)), Marker),
                TLStrip(TLast(text, tail)))

\* base64 payloads are carried as the bytes they encode: a "content" field is
\* [present |-> the encoded string is non-empty, bytes |-> the decoded bytes],
\* and decoding returns the bytes.
safe_b64decode(content) == content.bytes

\* number of bytes x of b with x < 9 or 13 < x < 32 (all bodies here are
\* ASCII; "NUL" is byte 0 and "CTL" stands for a byte such as 0x01)
RECURSIVE CtrlCount(_)
CtrlCount(b) ==
  IF b = <<>> THEN 0
  ELSE IF Len(b) = 1
    THEN IF b[1][1] \in {"NUL", "CTL"} THEN b[1][2] ELSE 0
  ELSE CtrlCount(Left(b)) + CtrlCount(Right(b))

HasNul(b) == \E i \in 1..Len(b) : b[i][1] = "NUL"

BinaryWindow == 4000

Min(a, b) == IF a <= b THEN a ELSE b
Max(a, b) == IF a >= b THEN a ELSE b

\* ctrl / max(1, min(len(b), 4000)) > 0.08, as an exact comparison
is_probably_binary_bytes(b) ==
  IF b = <<>> THEN FALSE
  ELSE IF HasNul(b) THEN TRUE
  ELSE 100 * CtrlCount(TTake(b, BinaryWindow))
         > 8 * Max(1, Min(TLen(b), BinaryWindow))

\* bytes.decode("utf-8", errors="replace") on ASCII bytes
decode_utf8(b) == b

BINARY_EXTS ==
  { ".png", ".jpg", ".jpeg", ".gif", ".webp", ".ico",
    ".pdf", ".zip", ".tar", ".gz", ".7z", ".rar",
    ".exe", ".dll", ".so", ".dylib",
    ".mp3", ".mp4", ".mov", ".avi", ".mkv",
    ".woff", ".woff2", ".ttf", ".otf" }

(***************************************************************************)
(* pathlib.PurePosixPath, as far as repo_processor.py uses it              *)
(***************************************************************************)
\* path.split("/"), cur being the segment read so far
RECURSIVE Segs(_, _)
Segs(s, cur) ==
  IF s = "" THEN <<cur>>
  ELSE IF Ch(s, 1) = "/" THEN <<cur>> \o Segs(Tail(s), "")
  ELSE Segs(Tail(s), cur \o Ch(s, 1))

RECURSIVE DropDots(_)
DropDots(q) ==
  IF q = <<>> THEN <<>>
  ELSE IF Head(q) = "" \/ Head(q) = "." THEN DropDots(Tail(q))
  ELSE <<Head(q)>> \o DropDots(Tail(q))

\* the segments below the root
RelParts(path) == DropDots(Segs(path, ""))

\* PurePosixPath(path).parts
Parts(path) ==
  (IF StartsWith(path, "//") /\ ~StartsWith(path, "///") THEN <<"//">>
   ELSE IF StartsWith(path, "/") THEN <<"/">>
   ELSE <<>>) \o RelParts(path)

PartSet(path) == {Parts(path)[i] : i \in 1..Len(Parts(path))}

\* PurePosixPath(path).name
PathName(path) ==
  IF RelParts(path) = <<>> THEN "" ELSE RelParts(path)[Len(RelParts(path))]

\* name.rfind("."), 1-based, 0 when there is no dot
RFindDot(name) ==
  IF \E i \in 1..Len(name) : Ch(name, i) = "."
  THEN CHOOSE i \in 1..Len(name) :
         /\ Ch(name, i) = "."
         /\ \A j \in (i + 1)..Len(name) : Ch(name, j) # "."
  ELSE 0

\* PurePosixPath(path).suffix
PathSuffix(path) ==
  LET name == PathName(path)
      i == RFindDot(name)
  IN  IF 1 < i /\ i < Len(name) THEN SubSeq(name, i, Len(name)) ELSE ""

(***************************************************************************)
(* services/repo_processor.py: path predicates and scoring                 *)
(***************************************************************************)
IGNORE_DIRS ==
  { ".git", ".github", ".idea", ".vscode",
    "node_modules", "dist", "build", "out",
    "__pycache__", ".pytest_cache", ".mypy_cache", ".ruff_cache",
    ".venv", "venv", "env",
    "vendor",
    ".next", ".nuxt" }

IGNORE_FILES ==
  { "package-lock.json", "yarn.lock", "pnpm-lock.yaml",
    "poetry.lock", "pdm.lock", "pipfile.lock",
    ".DS_Store" }

\* "main.py" and "package.json" are adjacent string literals with no comma
\* between them in the source list, which Python joins into one element.
IMPORTANT_BASENAMES ==
  { "README.md", "README.rst", "README.txt", "README",
    "pyproject.toml", "setup.py", "setup.cfg", "requirements.txt",
    "Pipfile", "environment.yml",
    "Dockerfile", "docker-compose.yml", "compose.yml",
    "mkdocs.yml", "docs/conf.py",
    "manage.py", "wsgi.py", "asgi.py", "app.py", "main.py" \o "package.json",
    "tsconfig.json",
    "go.mod", "Cargo.toml" }

TEXT_EXT_ALLOW ==
  { ".py", ".md", ".rst", ".txt",
    ".toml", ".cfg", ".ini", ".yml", ".yaml", ".json",
    ".js", ".ts", ".tsx", ".jsx",
    ".go", ".rs", ".java", ".kt", ".cs", ".cpp", ".c", ".h",
    ".sh", ".bat",
    ".html", ".css" }

_ext(path) == LowerStr(PathSuffix(path))

_basename(path) == PathName(path)

_ignored(path) ==
  \/ _basename(path) \in IGNORE_FILES
  \/ PartSet(path) \cap IGNORE_DIRS # {}
  \/ _ext(path) \in BINARY_EXTS

_is_text_candidate(path) ==
  \/ _ext(path) \in TEXT_EXT_ALLOW
  \/ _basename(path) \in {"Dockerfile", "LICENSE", "Makefile"}

\* base.upper().startswith("README")
IsReadmeName(base) == StartsWith(UpperStr(base), "README")

\* a size the tree item does not carry (or carries as a non-integer)
NoSize == 0 - 1

\* score_path returns (score, reason)
score_path(path, size) ==
  LET base == _basename(path)
      parts == PartSet(path)
  IN  IF IsReadmeName(base) THEN <<10000, "README">>
      ELSE IF base \in IMPORTANT_BASENAMES
        THEN <<7000, "Key project/config file">>
      ELSE IF "docs" \in parts THEN <<2000, "Documentation">>
      ELSE IF parts \cap {"src", "app", "apps"} # {}
        THEN <<1600, "Main source directory">>
      ELSE IF parts \cap {"tests", "test"} # {} THEN <<900, "Tests">>
      ELSE IF size # NoSize
        THEN <<300 + Max(0, 600 - (Min(size, 60000) \div 100)),
               "Source/text file">>
      ELSE <<300, "Source/text file">>

(***************************************************************************)
(* String operations that extract_tech_from_files applies to a body        *)
(***************************************************************************)
\* str.lower()
RECURSIVE TLower(_)
TLower(t) ==
  IF t = <<>> THEN <<>>
  ELSE IF Len(t) = 1 THEN Run(LowerCh(t[1][1]), t[1][2])
  ELSE TCat(TLower(Left(t)), TLower(Right(t)))

IsBreak(c) == c \in {"\n", "\r"}

\* str.splitlines(): lines end at "\n", "\r" or "\r\n"
RECURSIVE SplitLines(_)
SplitLines(t) ==
  IF t = <<>> THEN <<>>
  ELSE IF \A i \in 1..Len(t) : ~IsBreak(t[i][1]) THEN <<t>>
  ELSE LET i == CHOOSE i \in 1..Len(t) :
                  /\ IsBreak(t[i][1])
                  /\ \A j \in 1..(i - 1) : ~IsBreak(t[j][1])
           rest == SubSeq(t, i, Len(t))
           crlf == /\ rest[1] = <<"\r", 1>>
                   /\ Len(rest) > 1
                   /\ rest[2][1] = "\n"
       IN  <<SubSeq(t, 1, i - 1)>>
           \o SplitLines(TDrop(rest, IF crlf THEN 2 ELSE 1))

\* s.split(a + b)[0]: the part of s before the first occurrence of the two
\* characters a, b
BeforeSep2(t, a, b) ==
  LET hit(i) == IF a = b
                THEN t[i][1] = a /\ t[i][2] >= 2
                ELSE t[i][1] = a /\ i < Len(t) /\ t[i + 1][1] = b
  IN  IF \E i \in 1..Len(t) : hit(i)
      THEN LET i == CHOOSE i \in 1..Len(t) :
                      hit(i) /\ \A j \in 1..(i - 1) : ~hit(j)
           IN  IF a = b \/ t[i][2] = 1 THEN SubSeq(t, 1, i - 1)
               ELSE SubSeq(t, 1, i - 1) \o Run(a, t[i][2] - 1)
      ELSE t

\* s.split(a)[0] for one character a
BeforeSep1(t, a) ==
  IF \E i \in 1..Len(t) : t[i][1] = a
  THEN SubSeq(t, 1, (CHOOSE i \in 1..Len(t) :
                       t[i][1] = a /\ \A j \in 1..(i - 1) : t[j][1] # a) - 1)
  ELSE t

\* word in s, for a word given as a text
TContains(t, w) ==
  IF w = <<>> THEN TRUE
  ELSE \E i \in 1..(Len(t) - Len(w) + 1) :
         /\ \A k \in 1..Len(w) : t[i + k - 1][1] = w[k][1]
         /\ \A k \in 2..(Len(w) - 1) : t[i + k - 1][2] = w[k][2]
         /\ IF Len(w) = 1 THEN t[i][2] >= w[1][2]
            ELSE /\ t[i][2] >= w[1][2]
                 /\ t[i + Len(w) - 1][2] >= w[Len(w)][2]

\* a < b in Python's str order
RECURSIVE TLess(_, _)
TLess(a, b) ==
  IF b = <<>> THEN FALSE
  ELSE IF a = <<>> THEN TRUE
  ELSE IF Head(a)[1] # Head(b)[1] THEN Ord(Head(a)[1]) < Ord(Head(b)[1])
  ELSE LET m == Min(Head(a)[2], Head(b)[2])
       IN  TLess(TDrop(a, m), TDrop(b, m))

\* sorted(S) for a set S of texts
RECURSIVE SortedTexts(_)
SortedTexts(S) ==
  IF S = {} THEN <<>>
  ELSE LET m == CHOOSE x \in S : \A y \in S \ {x} : TLess(x, y)
       IN  <<m>> \o SortedTexts(S \ {m})

\* seq[:k]
Prefix(q, k) == SubSeq(q, 1, Min(Len(q), k))

(***************************************************************************)
(* json.loads, for JSON without \u escapes                                 *)
(* A value is [k, truthy, items]: k its Python type, truthy its truth      *)
(* value, items the <<key, value>> pairs of an object in source order, the *)
(* elements of an array, or the characters of a string.                    *)
(***************************************************************************)
JVal(k, truthy, items) == [k |-> k, truthy |-> truthy, items |-> items]
JNone == JVal("null", FALSE, <<>>)
JFail(i) == [ok |-> FALSE, pos |-> i, val |-> JNone]
JOk(i, v) == [ok |-> TRUE, pos |-> i, val |-> v]

\* the one element of a singleton: {e : x \in {v}} has its values computed
\* once, where a LET would have them computed at every use
Only(S) == CHOOSE x \in S : TRUE

\* the character at position i, "" past the end
At(t, i) == IF 1 <= i /\ i <= TLen(t) THEN TCharAt(t, i) ELSE ""

RECURSIVE SkipWS(_, _)
SkipWS(t, i) == IF At(t, i) \in WS THEN SkipWS(t, i + 1) ELSE i

IsDigit(c) == c \in {"0", "1", "2", "3", "4", "5", "6", "7", "8", "9"}

RECURSIVE SkipDigits(_, _)
SkipDigits(t, i) == IF IsDigit(At(t, i)) THEN SkipDigits(t, i + 1) ELSE i

\* the character a two-character escape stands for, "" when it is not one
Unescape(c) ==
  IF c \in {"\"", "\\", "/"} THEN c
  ELSE IF c = "n" THEN "\n"
  ELSE IF c = "r" THEN "\r"
  ELSE IF c = "t" THEN "\t"
  ELSE IF c \in {"b", "f"} THEN "CTL"
  ELSE ""

\* the number of backslashes in a row that end just before position p, none
\* of them before position i
SlashesBefore(t, i, p) ==
  CHOOSE k \in 0..(p - i) :
    /\ \A q \in (p - k)..(p - 1) : At(t, q) = "\\"
    /\ (p - k = i \/ At(t, p - k - 1) # "\\")

\* inside a string that starts at i, the character at p follows an escaping
\* backslash
Escaped(t, i, p) == SlashesBefore(t, i, p) % 2 = 1

\* the scan of a string that starts at i ends at p: the closing quote, a raw
\* control character, an escape json does not know, or the end of the text
Stops(t, i, p) ==
  IF Escaped(t, i, p) THEN Unescape(At(t, p)) = ""
  ELSE At(t, p) \in {"", "\"", "\n", "\r", "\t", "NUL", "CTL"}

\* what the character at p adds to the string that starts at i
Lit(t, i, p) ==
  IF Escaped(t, i, p) THEN Unescape(At(t, p))
  ELSE IF At(t, p) = "\\" THEN ""
  ELSE At(t, p)

\* the characters of the string that starts at i, from lo to hi
RECURSIVE Gather(_, _, _, _)
Gather(t, i, lo, hi) ==
  IF lo > hi THEN <<>>
  ELSE IF lo = hi
    THEN Only({ IF c = "" THEN <<>> ELSE Run(c, 1) : c \in {Lit(t, i, lo)} })
  ELSE TCat(Gather(t, i, lo, (lo + hi) \div 2),
            Gather(t, i, ((lo + hi) \div 2) + 1, hi))

\* the string whose opening quote is at i - 1
ScanStr(t, i) ==
  Only({
    IF ~Escaped(t, i, j) /\ At(t, j) = "\""
      THEN [ok |-> TRUE, pos |-> j + 1, str |-> Gather(t, i, i, j - 1)]
    ELSE [ok |-> FALSE, pos |-> j, str |-> <<>>]
    : j \in { CHOOSE p \in i..(TLen(t) + 1) :
                /\ Stops(t, i, p)
                /\ \A q \in i..(p - 1) : ~Stops(t, i, q) } })

MatchAt(t, i, word) ==
  \A k \in 1..Len(word) : At(t, i + k - 1) = Ch(word, k)

\* the end of the digits from i on, after a leading 0 or a run of digits
IntEnd(t, i) == IF At(t, i) = "0" THEN i + 1 ELSE SkipDigits(t, i)

\* the end of a fraction at i, i when there is none
FracEnd(t, i) ==
  IF At(t, i) = "." /\ IsDigit(At(t, i + 1)) THEN SkipDigits(t, i + 1) ELSE i

\* the end of an exponent at i, i when there is none
ExpEnd(t, i) ==
  Only({ IF At(t, i) \in {"e", "E"} /\ IsDigit(At(t, k)) THEN SkipDigits(t, k)
         ELSE i
         : k \in {IF At(t, i + 1) \in {"+", "-"} THEN i + 2 ELSE i + 1} })

ParseNumber(t, i) ==
  Only({
    IF ~IsDigit(At(t, j0)) THEN JFail(i)
    ELSE Only({
      JOk(ExpEnd(t, j2),
          JVal("num",
               \E p \in j0..(j2 - 1) : IsDigit(At(t, p)) /\ At(t, p) # "0",
               <<>>))
      : j2 \in {FracEnd(t, IntEnd(t, j0))} })
    : j0 \in {IF At(t, i) = "-" THEN i + 1 ELSE i} })

RECURSIVE ParseValue(_, _)
RECURSIVE ParseMembers(_, _, _)
RECURSIVE ParseElements(_, _, _)

\* the members of an object from position i (at a key), items read so far
ParseMembers(t, i, items) ==
  IF At(t, i) # "\"" THEN JFail(i)
  ELSE Only({
    IF ~key.ok \/ At(t, SkipWS(t, key.pos)) # ":" THEN JFail(i)
    ELSE Only({
      IF ~v.ok THEN JFail(i)
      ELSE Only({
        IF At(t, e) = "}"
          THEN JOk(e + 1, JVal("dict", TRUE, Append(items, <<key.str, v.val>>)))
        ELSE IF At(t, e) = ","
          THEN ParseMembers(t, SkipWS(t, e + 1),
                            Append(items, <<key.str, v.val>>))
        ELSE JFail(e)
        : e \in {SkipWS(t, v.pos)} })
      : v \in {ParseValue(t, SkipWS(t, SkipWS(t, key.pos) + 1))} })
    : key \in {ScanStr(t, i + 1)} })

\* the elements of an array from position i (at a value), items read so far
ParseElements(t, i, items) ==
  Only({
    IF ~v.ok THEN JFail(i)
    ELSE Only({
      IF At(t, e) = "]" THEN JOk(e + 1, JVal("list", TRUE, Append(items, v.val)))
      ELSE IF At(t, e) = ","
        THEN ParseElements(t, SkipWS(t, e + 1), Append(items, v.val))
      ELSE JFail(e)
      : e \in {SkipWS(t, v.pos)} })
    : v \in {ParseValue(t, i)} })

ParseValue(t, i) ==
  Only({
    IF c = "{"
      THEN Only({ IF At(t, j) = "}" THEN JOk(j + 1, JVal("dict", FALSE, <<>>))
                  ELSE ParseMembers(t, j, <<>>)
                  : j \in {SkipWS(t, i + 1)} })
    ELSE IF c = "["
      THEN Only({ IF At(t, j) = "]" THEN JOk(j + 1, JVal("list", FALSE, <<>>))
                  ELSE ParseElements(t, j, <<>>)
                  : j \in {SkipWS(t, i + 1)} })
    ELSE IF c = "\""
      THEN Only({ IF r.ok THEN JOk(r.pos, JVal("str", r.str # <<>>, r.str))
                  ELSE JFail(i)
                  : r \in {ScanStr(t, i + 1)} })
    ELSE IF MatchAt(t, i, "true") THEN JOk(i + 4, JVal("bool", TRUE, <<>>))
    ELSE IF MatchAt(t, i, "false") THEN JOk(i + 5, JVal("bool", FALSE, <<>>))
    ELSE IF MatchAt(t, i, "null") THEN JOk(i + 4, JNone)
    ELSE ParseNumber(t, i)
    : c \in {At(t, i)} })

\* json.loads(t): ok is FALSE where it raises
json_loads(t) ==
  Only({ IF r.ok /\ SkipWS(t, r.pos) = TLen(t) + 1 THEN r ELSE JFail(1)
         : r \in {ParseValue(t, SkipWS(t, 1))} })

\* d.get(key, {}) on a parsed dict: the last member with that key wins
DictGet(d, key) ==
  LET hits == {i \in 1..Len(d.items) : d.items[i][1] = key}
  IN  IF hits = {} THEN JVal("dict", FALSE, <<>>)
      ELSE d.items[CHOOSE i \in hits : \A j \in hits : j <= i][2]

DictKeys(d) == {d.items[i][1] : i \in 1..Len(d.items)}

(***************************************************************************)
(* services/repo_processor.py: extract_tech_from_files                     *)
(***************************************************************************)
\* file_texts.get(name): the empty text when the key is absent
DictText(file_texts, name) ==
  IF name \in DOMAIN file_texts THEN file_texts[name] ELSE <<>>

\* the package a requirements line names, <<>> when the line adds nothing
ReqPackage(rawline) ==
  LET line == TStrip(rawline)
  IN  IF line = <<>> \/ Head(line)[1] = "#" THEN <<>>
      ELSE TStrip(BeforeSep1(BeforeSep2(BeforeSep2(BeforeSep2(
             line, "=", "="), ">", "="), "<", "="), "["))

ReqTech(req) ==
  {ReqPackage(SplitLines(req)[i]) : i \in 1..Len(SplitLines(req))} \ {<<>>}

\* the keys one section of package.json adds, raised |-> it threw
PkgSection(data, section) ==
  LET got  == DictGet(data, T(section))
      deps == IF got.truthy THEN got ELSE JVal("dict", FALSE, <<>>)
  IN  IF deps.k = "dict" THEN [raised |-> FALSE, keys |-> DictKeys(deps)]
      ELSE [raised |-> TRUE, keys |-> {}]

\* what the try block adds to tech before it ends or throws
PkgTech(pj) ==
  LET r == json_loads(pj)
  IN  IF ~r.ok \/ r.val.k # "dict" THEN {}
      ELSE LET d1 == PkgSection(r.val, "dependencies")
               d2 == PkgSection(r.val, "devDependencies")
           IN  IF d1.raised THEN {} ELSE d1.keys \cup d2.keys

PyprojectTech(pyproj) ==
  LET lowered == TLower(pyproj)
  IN  (IF TContains(lowered, T("django")) THEN {T("Django")} ELSE {})
      \cup (IF TContains(lowered, T("fastapi")) THEN {T("FastAPI")} ELSE {})
      \cup (IF TContains(lowered, T("torch")) THEN {T("PyTorch")} ELSE {})

MaxTech == 25

extract_tech_from_files(file_texts) ==
  Prefix(SortedTexts(ReqTech(DictText(file_texts, "requirements.txt"))
                     \cup PkgTech(DictText(file_texts, "package.json"))
                     \cup PyprojectTech(DictText(file_texts, "pyproject.toml"))),
         MaxTech)

(***************************************************************************)
(* services/repo_processor.py: candidates and the structure hint           *)
(***************************************************************************)
\* settings.py
max_files == 14
max_file_bytes == 80000
max_total_context_chars == 45000
max_readme_chars == 18000

\* sorted(items, key=..., reverse=True) given the key of each item: a stable
\* sort, items of equal key keeping their order
SortDescBy(items, keys) ==
  LET n == Len(items)
      pos(i) == Cardinality({j \in 1..n : keys[j] > keys[i]})
                + Cardinality({j \in 1..(i - 1) : keys[j] = keys[i]}) + 1
  IN  [p \in 1..n |-> items[CHOOSE i \in 1..n : pos(i) = p]]

\* A tree item is [type, path, size]: path "" when the item has none, size
\* NoSize when it has none.  The items the first loop looks at further:
IsListed(item) == item.type = "blob" /\ item.path # ""

\* ... and those it keeps as candidates
IsCandidate(item) ==
  /\ IsListed(item)
  /\ ~(_ignored(item.path) \/ ~_is_text_candidate(item.path))
  /\ ~(item.size # NoSize /\ item.size > max_file_bytes)

Candidate(item) ==
  [score  |-> score_path(item.path, item.size)[1],
   path   |-> item.path,
   reason |-> score_path(item.path, item.size)[2],
   size   |-> item.size]

\* how many candidates are kept for fetching
CandidateCap == max_files * 4

\* the candidates list after the sort and the cap
Candidates(tree_items) ==
  LET kept == SelectSeq(tree_items, IsCandidate)
      cs   == [i \in 1..Len(kept) |-> Candidate(kept[i])]
  IN  Prefix(SortDescBy(cs, [i \in 1..Len(cs) |-> cs[i].score]), CandidateCap)

\* all_paths
AllPaths(tree_items) ==
  LET kept == SelectSeq(tree_items, IsListed)
  IN  [i \in 1..Len(kept) |-> kept[i].path]

RECURSIVE Digits(_)
Digits(n) ==
  IF n < 10 THEN Ch("0123456789", n + 1)
  ELSE Digits(n \div 10) \o Ch("0123456789", (n % 10) + 1)

HasDot(name) == \E i \in 1..Len(name) : Ch(name, i) = "."

\* ", ".join(parts)
RECURSIVE JoinTexts(_, _)
JoinTexts(parts, sep) ==
  IF parts = <<>> THEN <<>>
  ELSE IF Len(parts) = 1 THEN parts[1]
  ELSE TCat(TCat(JoinTexts(Left(parts), sep), sep), JoinTexts(Right(parts), sep))

TopShown == 8

build_structure_hint(tree_paths) ==
  LET tops  == [i \in 1..Len(tree_paths) |->
                  IF Parts(tree_paths[i]) = <<>> THEN ""
                  ELSE Parts(tree_paths[i])[1]]
      \* the keys of the dict "top", in insertion order
      first == {i \in 1..Len(tops) :
                  tops[i] # "" /\ \A j \in 1..(i - 1) : tops[j] # tops[i]}
      keyAt(p) == tops[CHOOSE i \in first :
                         Cardinality({j \in first : j < i}) = p - 1]
      names == [p \in 1..Cardinality(first) |-> keyAt(p)]
      count(name) == Cardinality({i \in 1..Len(tops) : tops[i] = name})
      items == Prefix(SortDescBy(names,
                                 [p \in 1..Len(names) |-> count(names[p])]),
                      TopShown)
      part(name) ==
        IF ~HasDot(name)
        THEN TCat(TCat(Run("BQ", 1), T(name \o "/")),
                  TCat(Run("BQ", 1),
                       T(" (" \o Digits(count(name)) \o " items)")))
        ELSE TCat(TCat(Run("BQ", 1), T(name)),
                  TCat(Run("BQ", 1), T(" (" \o Digits(count(name)) \o ")")))
      parts == [p \in 1..Len(items) |-> part(items[p])]
  IN  IF parts # <<>>
      THEN TCat(T("Top-level layout: "), JoinTexts(parts, T(", ")))
      ELSE T("Top-level layout: (could not infer)")

(***************************************************************************)
(* The repository host, as services/github_client.py sees it               *)
(* An HTTP exchange ends in a transport failure (httpx raises) or in a     *)
(* response [status, json].                                                *)
(***************************************************************************)
Content(present, bytes) == [present |-> present, bytes |-> bytes]

\* a contents object; path "" stands for an object without a "path" key
FileObj(type, path, content) ==
  [isnone |-> FALSE, type |-> type, path |-> path, content |-> content]

\* Python's None where a contents object is expected
NoObj == [isnone |-> TRUE, type |-> "", path |-> "", content |-> Content(FALSE, <<>>)]

Http(status, json) == [exc |-> FALSE, status |-> status, json |-> json]
TransportFailure(json) == [exc |-> TRUE, status |-> 0, json |-> json]

\* what a call ends with: a value, or an exception of one of these kinds
\*   "InvalidInput", "NotFound", "UpstreamError": AppError 400, 404, 502
\*   "TransportError": the httpx exception, not an AppError
\*   "Unexpected": any other exception that is not an AppError
Return(v) == [raised |-> "", val |-> v]
Raise(kind, v) == [raised |-> kind, val |-> v]

\* GitHubClient.get_readme, given how the exchange ended
get_readme(resp) ==
  IF resp.exc THEN Raise("TransportError", NoObj)
  ELSE IF resp.status >= 400 THEN Return(NoObj)
  ELSE Return(resp.json)

\* GitHubClient.get_file, given how the exchange ended
get_file(resp) ==
  IF resp.exc THEN Raise("TransportError", NoObj)
  ELSE IF resp.status >= 400 THEN Return(NoObj)
  ELSE Return(resp.json)

(***************************************************************************)
(* services/github_client.py: the URL and the metadata calls               *)
(***************************************************************************)
\* the first index from i on whose character is in stops, Len(s) + 1 if none
FirstIn(s, i, stops) ==
  LET hits == {j \in i..Len(s) : Ch(s, j) \in stops}
  IN  IF hits = {} THEN Len(s) + 1
      ELSE CHOOSE j \in hits : \A k \in hits : j <= k

\* s.rstrip(chars): every trailing character that is in chars goes
RStripChars(s, chars) ==
  LET keep == {j \in 1..Len(s) : Ch(s, j) \notin chars}
  IN  IF keep = {} THEN ""
      ELSE SubSeq(s, 1, CHOOSE j \in keep : \A k \in keep : k <= j)

\* the length of the match of ^https?://github\.com/ at the start of url
HostPrefixLen(url) ==
  IF StartsWith(url, "https://github.com/") THEN Len("https://github.com/")
  ELSE IF StartsWith(url, "http://github.com/") THEN Len("http://github.com/")
  ELSE 0

\* GITHUB_REPO_RE.match(url): owner is [^/]+, then "/", then repo is [^/#?]+
GITHUB_REPO_RE(url) ==
  LET from == HostPrefixLen(url) + 1
      sep  == FirstIn(url, from, {"/"})
      stop == FirstIn(url, sep + 1, {"/", "#", "?"})
  IN  IF HostPrefixLen(url) = 0 \/ sep = from \/ sep > Len(url) \/ stop = sep + 1
      THEN [matched |-> FALSE, owner |-> "", repo |-> ""]
      ELSE [matched |-> TRUE,
            owner   |-> SubSeq(url, from, sep - 1),
            repo    |-> SubSeq(url, sep + 1, stop - 1)]

\* a slip: the groups are read without testing the match
parse_repo_url_unchecked(url) ==
  Return(<<GITHUB_REPO_RE(url).owner,
           RStripChars(GITHUB_REPO_RE(url).repo, {".", "g", "i", "t"})>>)

parse_repo_url(url) ==
  IF ~GITHUB_REPO_RE(url).matched THEN Raise("InvalidInput", <<"", "">>)
  ELSE Return(<<GITHUB_REPO_RE(url).owner,
                RStripChars(GITHUB_REPO_RE(url).repo, {".", "g", "i", "t"})>>)

\* the JSON of a repository: a field is the empty text where the key is
\* absent or null
Meta(full_name, description, default_branch, topics, homepage) ==
  [full_name |-> full_name, description |-> description,
   default_branch |-> default_branch, topics |-> topics,
   homepage |-> homepage]

NoMeta == Meta(<<>>, <<>>, <<>>, <<>>, <<>>)

get_repo(resp) ==
  IF resp.exc THEN Raise("TransportError", NoMeta)
  ELSE IF resp.status = 404 THEN Raise("NotFound", NoMeta)
  ELSE IF resp.status >= 400 THEN Raise("UpstreamError", NoMeta)
  ELSE Return(resp.json)

\* the JSON of the languages: <<name, bytes>> pairs in order
get_languages(resp) ==
  IF resp.exc THEN Raise("TransportError", <<>>)
  ELSE IF resp.status >= 400 THEN Return(<<>>)
  ELSE Return(resp.json)

\* the JSON of a branch, as far as it is read: [sha]
get_branch_tree_sha(resp) ==
  IF resp.exc THEN Raise("TransportError", "")
  ELSE IF resp.status >= 400 THEN Raise("UpstreamError", "")
  ELSE Return(resp.json.sha)

\* the JSON of a tree: [tree, truncated]
TreeJson(tree, truncated) == [tree |-> tree, truncated |-> truncated]

get_tree(resp) ==
  IF resp.exc THEN Raise("TransportError", TreeJson(<<>>, FALSE))
  ELSE IF resp.status >= 400 THEN Raise("UpstreamError", TreeJson(<<>>, FALSE))
  ELSE Return(resp.json)

\* the JSON of the root contents: [islist, entries]
RootJson(islist, entries) == [islist |-> islist, entries |-> entries]

get_root_contents(resp) ==
  IF resp.exc THEN Raise("TransportError", <<>>)
  ELSE IF resp.status >= 400 THEN Return(<<>>)
  ELSE Return(IF resp.json.islist THEN resp.json.entries ELSE <<>>)

(***************************************************************************)
(* utils/errors.py and the exception handlers of main.py                   *)
(***************************************************************************)
\* the kinds of exception that are an AppError
AppErrors == {"InvalidInput", "NotFound", "UpstreamError"}

\* bad_request, not_found, upstream_error
status_code(kind) ==
  IF kind = "InvalidInput" THEN 400
  ELSE IF kind = "NotFound" THEN 404
  ELSE 502

\* app_error_handler for an AppError, unhandled_error_handler for the rest
error_response(kind) == IF kind \in AppErrors THEN status_code(kind) ELSE 500


(***************************************************************************)
(* State                                                                   *)
(* Every request r runs its own copy of the pipeline; the variables below  *)
(* are indexed by request.  pc[r] is the await (or the point in between)   *)
(* the request is at.                                                      *)
(***************************************************************************)
VARIABLES
  pc,              \* position of each request
  tree_items,      \* select_and_load_files: the tree_items argument
  candidates,      \* ... candidates, sorted and capped
  structure_hint,  \* ... structure_hint
  selected,        \* ... selected: [path, reason, content] entries
  loaded_texts,    \* ... loaded_texts: basename -> text
  total_chars,     \* ... total_chars
  idx,             \* ... index into candidates of the loop's next iteration
  extracted_tech,  \* ... extracted_tech
  calls,           \* the host calls the request has issued, in order
  skips,           \* how many fetches of the request the host has refused
  raised,          \* the exception the request ended with, "" for none
  readme_obj,      \* select_and_load_files: readme_obj
  fun_pc,          \* a function called on its own: which, and whether it returned
  fun_args,        \* ... its arguments
  fun_ret,         \* ... what it returned
  github_url,      \* summarize_repo: the github_url argument
  repo_meta,       \* ... repo_meta
  languages,       \* ... languages
  out,             \* ... what it returned
  status,          \* the HTTP status the request was answered with, 0 for none yet
  cache,           \* SummarizeService.cache: url -> [value, expires]
  now,             \* the clock the cache reads
  arrivals,        \* how many requests have arrived
  llm_enabled      \* NebiusLLMClient.enabled

selVars == <<tree_items, candidates, structure_hint, selected, loaded_texts,
             total_chars, idx, extracted_tech, readme_obj>>

funVars == <<fun_pc, fun_args, fun_ret>>

reqVars == <<github_url, repo_meta, languages, out, status>>

svcVars == <<reqVars, cache, now, arrivals, llm_enabled>>

\* requests
NumReqs == 2
Reqs == 1..NumReqs

\* at most this many fetches of one request come back without a usable file
MaxSkips == 1

(***************************************************************************)
(* services/repo_processor.py: select_and_load_files                       *)
(***************************************************************************)
PerFileCap == 12000
BudgetFloor == 2000

Call(op, arg) == [op |-> op, arg |-> arg]

SelectedFile(path, reason, content) ==
  [path |-> path, reason |-> reason, content |-> content]

\* sum(len(x.content) for x in selected)
RECURSIVE SumLen(_)
SumLen(sel) ==
  IF sel = <<>> THEN 0
  ELSE IF Len(sel) = 1 THEN TLen(sel[1].content)
  ELSE SumLen(Left(sel)) + SumLen(Right(sel))

\* readme_obj and readme_obj.get("content"), and the bytes are not binary
ReadmeUsable(obj) ==
  /\ ~obj.isnone
  /\ obj.content.present
  /\ ~is_probably_binary_bytes(safe_b64decode(obj.content))

ReadmeEntry(obj) ==
  SelectedFile(IF obj.path = "" THEN "README" ELSE obj.path,
               "README",
               truncate(decode_utf8(safe_b64decode(obj.content)),
                        max_readme_chars))

\* the fetched object yields no file: the loop continues
FileSkipped(obj) ==
  \/ obj.isnone
  \/ obj.type # "file"
  \/ ~obj.content.present
  \/ is_probably_binary_bytes(safe_b64decode(obj.content))

\* min(12_000, remaining)
FileBudget(total) ==
  Min(PerFileCap, Max(BudgetFloor, max_total_context_chars - total))

FileText(obj, total) ==
  truncate(decode_utf8(safe_b64decode(obj.content)), FileBudget(total))

\* a slip: the limit tested with > in place of >=
AtMaxFilesLate(sel) == Len(sel) > max_files

\* len(selected) >= settings.max_files
AtMaxFiles(sel) == Len(sel) >= max_files

\* a slip: a README recognised only by the path already selected
SkipsAsReadmeByPath(path, sel) ==
  \E i \in 1..Len(sel) : sel[i].reason = "README" /\ sel[i].path = path

\* the README test of the loop on a candidate path
SkipsAsReadme(path, sel) ==
  /\ IsReadmeName(PathName(path))
  /\ \E i \in 1..Len(sel) : sel[i].reason = "README"

(***************************************************************************)
(* Inputs: what the host serves                                            *)
(***************************************************************************)
Item(type, path, size) == [type |-> type, path |-> path, size |-> size]

\* bodies
Short == T("print('hi')\n")
Exact12k == Run("x", 12000)
Long50k == Run("a", 50000)
\* whitespace on both sides of the cut a 12,000 budget makes
LongSpaced == Run("a", 8990) \o Run(" ", 20) \o Run("b", 40000)
               \o Run("\n", 30) \o Run("c", 2980)
Fill2984 == Run("f", 2984)
Binary == Run("a", 10) \o Run("NUL", 1) \o Run("b", 10)
Control == Run("a", 90) \o Run("CTL", 10)

BigBodies == {Exact12k, Long50k, LongSpaced, Fill2984}

ReqFlask == T("flask==2.0\nrequests")
ReqBodies ==
  { ReqFlask,
    T("# pinned\n\nFlask>=1.0\r\nflask [async]<=3\n ==3\nuvicorn[standard]==0.1\n"),
    Run("a", 50000) }

PkgBodies ==
  { T("{\"dependencies\": {\"react\": \"^18\", \"\": \"1\"}, \"devDependencies\": [1]}"),
    T("{\"dependencies\": {\"React\": \"^18\"}, \"devDependencies\": {\"react\": \"1\", \"Flask\": \"0\"}}"),
    T("{\"dependencies\": null, \"devDependencies\": {\"jest\": {\"v\": [true, -1.5e3]}}}"),
    T("[\"dependencies\"]"),
    T("{\"dependencies\": {\"react\": ") }

PyprojBodies ==
  { T("[project]\ndependencies = [\"Django>=4\", \"torchvision\"]\n"),
    T("[tool.x]\nname = \"FASTAPI-app\"\n"),
    T("[project]\nname = \"plain\"\n") }

\* the bodies the host may serve for a path
HostBodies(path) ==
  IF _basename(path) = "requirements.txt" THEN ReqBodies
  ELSE IF _basename(path) = "package.json" THEN PkgBodies
  ELSE IF _basename(path) = "pyproject.toml" THEN PyprojBodies
  ELSE IF "big" \in PartSet(path) THEN BigBodies
  ELSE IF "heavy" \in PartSet(path) THEN {Long50k}
  ELSE {Short}

\* the exchanges a contents request for a path can end in
FileServed(path) ==
  {Http(200, FileObj("file", path, Content(TRUE, b))) : b \in HostBodies(path)}

\* (the host always serves the sources under heavy/ and wide/)
FileRefused(path) ==
  IF PartSet(path) \cap {"heavy", "wide"} # {} THEN {}
  ELSE
  { Http(404, NoObj),
    Http(200, FileObj("symlink", path, Content(FALSE, <<>>))),
    Http(200, FileObj("file", path, Content(FALSE, <<>>))),
    Http(200, FileObj("file", path, Content(TRUE, Binary))),
    Http(200, FileObj("file", path, Content(TRUE, Control))) }

\* the exchanges a README request can end in; the host reports the path of
\* the README it picked, which may lie in .github/ or docs/
ReadmeBodies == {T("# Widgets\nA widget library.\n"), Run("r", 18000),
                 Run("r", 17990) \o Run(" ", 20) \o Run("s", 30000)}

ReadmeServed ==
  {Http(200, FileObj("file", "README.md", Content(TRUE, b))) : b \in ReadmeBodies}
  \cup { Http(200, FileObj("file", ".github/README.md", Content(TRUE, Short))),
         Http(200, FileObj("file", "", Content(TRUE, Short))) }

ReadmeRefused ==
  { Http(404, NoObj),
    Http(200, FileObj("file", "README.md", Content(FALSE, <<>>))),
    Http(200, FileObj("file", "README.md", Content(TRUE, Binary))) }

\* tree listings
TreeAcme ==
  << Item("blob", "README.md", 120),
     Item("blob", "src/main.py", 300),
     Item("blob", "node_modules/x.js", 50),
     Item("blob", "requirements.txt", 20) >>

TreeMixed ==
  << Item("blob", ".github/workflows/ci.yml", 200),
     Item("blob", "docs/README.md", 900),
     Item("blob", "tests/test_a.py", 400),
     Item("tree", "src", NoSize),
     Item("blob", "logo.png", 5000),
     Item("blob", "app/views.py", 700),
     Item("blob", "package-lock.json", 70000),
     Item("blob", "notes.txt", 100),
     Item("blob", "huge.py", 90000),
     Item("blob", "", 10),
     Item("blob", "package.json", 800),
     Item("blob", "docs/guide.md", 3000),
     Item("blob", "Readme.rst", 50),
     Item("blob", "pyproject.toml", 600),
     Item("blob", "LICENSE", NoSize),
     Item("blob", "data.bin", 10) >>

TreeBig ==
  << Item("blob", "big/a.py", 70000),
     Item("blob", "big/b.py", 70000),
     Item("blob", "big/c.py", 70000),
     Item("blob", "big/d.py", 70000),
     Item("blob", "small.py", 10) >>

\* a flat listing of this many plain files
NumPlain == 16

TreePlain ==
  [i \in 1..NumPlain |-> Item("blob", "f" \o Digits(i) \o ".py", NoSize)]

\* a small plain file listed before a test file
TreeTies ==
  << Item("blob", "tiny.py", 50),
     Item("blob", "tests/test_a.py", 400),
     Item("blob", "src/core.py", 300) >>

SelTrees == {TreeAcme, TreeMixed, TreeBig, TreePlain, TreeTies, <<>>}

\* the listing of acme/widget, whole and as its root contents
TreeWidget ==
  << Item("blob", "README.md", 40),
     Item("tree", "docs", NoSize),
     Item("blob", "app.py", 100),
     Item("blob", "logo.png", 900) >>

\* what the host sends of the recursive listing when it truncates it
TreeCut ==
  << Item("blob", "app.py", 100),
     Item("blob", "pkg/core.py", 50) >>

RootWidget ==
  << [type |-> "file", path |-> "setup.py", size |-> 30],
     [type |-> "dir", path |-> "docs", size |-> 0],
     [type |-> "symlink", path |-> "latest", size |-> 6] >>

\* a listing of large sources and a listing one file wider than max_files
TreeHeavy ==
  [i \in 1..5 |-> Item("blob", "heavy/h" \o Digits(i) \o ".py", 60000)]

TreeWide ==
  [i \in 1..(max_files + 1) |-> Item("blob", "wide/w" \o Digits(i) \o ".py", NoSize)]

\* how a README request can end for the repository with this listing: the
\* repositories the service is run on have one README
ReadmeExchanges(items) ==
  IF items \in SelTrees THEN ReadmeServed \cup ReadmeRefused
  ELSE { Http(200, FileObj("file", "README.md", Content(TRUE, T("# Widget\n")))),
         Http(404, NoObj) }

(***************************************************************************)
(* select_and_load_files, step by step                                     *)
(*   "select"    entered, nothing done yet                                 *)
(*   "readme"    awaiting github.get_readme                                *)
(*   "loop"      at the head of the fetch loop, before candidate idx       *)
(*   "sel_done"  the loop is over                                          *)
(*   "selected"  returned                                                  *)
(*   "failed"    left by an exception                                      *)
(***************************************************************************)
Set(var, r, v) == [var EXCEPT ![r] = v]

\* lines 195-227: the candidates, the hint, and the README request goes out
SelStart(r) ==
  /\ pc[r] = "select"
  /\ candidates' = Set(candidates, r, Candidates(tree_items[r]))
  /\ structure_hint' =
       Set(structure_hint, r, build_structure_hint(AllPaths(tree_items[r])))
  /\ selected' = Set(selected, r, <<>>)
  /\ loaded_texts' = Set(loaded_texts, r, <<>>)
  /\ calls' = Set(calls, r, Append(calls[r], Call("get_readme", "")))
  /\ pc' = Set(pc, r, "readme")
  /\ UNCHANGED <<tree_items, total_chars, idx, extracted_tech, skips, raised,
                 readme_obj, funVars, svcVars>>

\* what lines 228-236 leave in selected
AfterReadme(obj) ==
  IF ReadmeUsable(obj) THEN <<ReadmeEntry(obj)>> ELSE <<>>

\* lines 227-236: the README request returns
ReadmeDone(r) ==
  /\ pc[r] = "readme"
  /\ \E resp \in ReadmeExchanges(tree_items[r]) :
       /\ readme_obj' = Set(readme_obj, r, get_readme(resp).val)
       /\ selected' = Set(selected, r, AfterReadme(get_readme(resp).val))
       /\ total_chars' =
            Set(total_chars, r, SumLen(AfterReadme(get_readme(resp).val)))
  /\ idx' = Set(idx, r, 1)
  /\ pc' = Set(pc, r, "loop")
  /\ UNCHANGED <<tree_items, candidates, structure_hint, loaded_texts,
                 extracted_tech, calls, skips, raised, funVars, svcVars>>

\* line 227: the README request fails in transport
ReadmeRaise(r) ==
  /\ pc[r] = "readme"
  /\ raised' = Set(raised, r, get_readme(TransportFailure(NoObj)).raised)
  /\ pc' = Set(pc, r, "failed")
  /\ UNCHANGED <<selVars, calls, skips, funVars, svcVars>>

AtCandidate(r) == pc[r] = "loop" /\ idx[r] <= Len(candidates[r])

\* line 237: no candidate is left
LoopEnd(r) ==
  /\ pc[r] = "loop"
  /\ idx[r] > Len(candidates[r])
  /\ pc' = Set(pc, r, "sel_done")
  /\ UNCHANGED <<selVars, calls, skips, raised, funVars, svcVars>>

\* lines 238-239
BreakMaxFiles(r) ==
  /\ AtCandidate(r)
  /\ AtMaxFiles(selected[r])
  /\ pc' = Set(pc, r, "sel_done")
  /\ UNCHANGED <<selVars, calls, skips, raised, funVars, svcVars>>

\* lines 241-242
SkipReadme(r) ==
  /\ AtCandidate(r)
  /\ ~AtMaxFiles(selected[r])
  /\ SkipsAsReadme(candidates[r][idx[r]].path, selected[r])
  /\ idx' = Set(idx, r, idx[r] + 1)
  /\ UNCHANGED <<pc, tree_items, candidates, structure_hint, selected,
                 loaded_texts, total_chars, extracted_tech, calls, skips,
                 raised, readme_obj, funVars, svcVars>>

\* lines 245-246
BreakBudget(r) ==
  /\ AtCandidate(r)
  /\ ~AtMaxFiles(selected[r])
  /\ ~SkipsAsReadme(candidates[r][idx[r]].path, selected[r])
  /\ total_chars[r] >= max_total_context_chars
  /\ pc' = Set(pc, r, "sel_done")
  /\ UNCHANGED <<selVars, calls, skips, raised, funVars, svcVars>>

\* the loop reaches line 248 and issues get_file for candidate idx
Fetches(r) ==
  /\ AtCandidate(r)
  /\ ~AtMaxFiles(selected[r])
  /\ ~SkipsAsReadme(candidates[r][idx[r]].path, selected[r])
  /\ ~(total_chars[r] >= max_total_context_chars)

Fetched(r) ==
  Append(calls[r], Call("get_file", candidates[r][idx[r]].path))

\* line 248: the request fails in transport
FetchRaise(r) ==
  /\ Fetches(r)
  /\ calls' = Set(calls, r, Fetched(r))
  /\ raised' = Set(raised, r, get_file(TransportFailure(NoObj)).raised)
  /\ pc' = Set(pc, r, "failed")
  /\ UNCHANGED <<selVars, skips, funVars, svcVars>>

\* lines 248-254: the fetch yields no file
FetchSkip(r) ==
  /\ Fetches(r)
  /\ skips[r] < MaxSkips
  /\ \E resp \in FileRefused(candidates[r][idx[r]].path) :
       FileSkipped(get_file(resp).val)
  /\ calls' = Set(calls, r, Fetched(r))
  /\ skips' = Set(skips, r, skips[r] + 1)
  /\ idx' = Set(idx, r, idx[r] + 1)
  /\ UNCHANGED <<pc, tree_items, candidates, structure_hint, selected,
                 loaded_texts, total_chars, extracted_tech, raised,
                 readme_obj, funVars, svcVars>>

\* lines 248-264: the fetch yields a file, which is truncated and selected
FetchSelect(r) ==
  /\ Fetches(r)
  /\ \E resp \in FileServed(candidates[r][idx[r]].path) :
       LET c   == candidates[r][idx[r]]
           obj == get_file(resp).val
           txt == FileText(obj, total_chars[r])
       IN  /\ ~FileSkipped(obj)
           /\ selected' =
                Set(selected, r,
                    Append(selected[r], SelectedFile(c.path, c.reason, txt)))
           /\ total_chars' = Set(total_chars, r, total_chars[r] + TLen(txt))
           /\ loaded_texts' =
                Set(loaded_texts, r, (_basename(c.path) :> txt) @@ loaded_texts[r])
  /\ calls' = Set(calls, r, Fetched(r))
  /\ idx' = Set(idx, r, idx[r] + 1)
  /\ UNCHANGED <<pc, tree_items, candidates, structure_hint, extracted_tech,
                 skips, raised, readme_obj, funVars, svcVars>>

\* lines 266-267
SelReturn(r) ==
  /\ pc[r] = "sel_done"
  /\ extracted_tech' =
       Set(extracted_tech, r, extract_tech_from_files(loaded_texts[r]))
  /\ pc' = Set(pc, r, "selected")
  /\ UNCHANGED <<tree_items, candidates, structure_hint, selected,
                 loaded_texts, total_chars, idx, calls, skips, raised,
                 readme_obj, funVars, svcVars>>

vars == <<pc, tree_items, candidates, structure_hint, selected, loaded_texts,
          total_chars, idx, extracted_tech, calls, skips, raised, readme_obj,
          fun_pc, fun_args, fun_ret, github_url, repo_meta, languages, out,
          status, cache, now, arrivals, llm_enabled>>

\* summarize_repo's result: summary, technologies, structure
Out(summary, technologies, structure) ==
  [summary |-> summary, technologies |-> technologies, structure |-> structure]

NoOut == Out(<<>>, <<>>, <<>>)

\* no request has arrived, and the cache is empty
NoService ==
  /\ github_url = [r \in Reqs |-> ""]
  /\ repo_meta = [r \in Reqs |-> NoMeta]
  /\ languages = [r \in Reqs |-> <<>>]
  /\ out = [r \in Reqs |-> NoOut]
  /\ status = [r \in Reqs |-> 0]
  /\ cache = <<>>
  /\ now = 0
  /\ arrivals = 0

\* no function is called on its own
NoFun ==
  /\ fun_pc = "off"
  /\ fun_args = <<>>
  /\ fun_ret = <<>>

\* the locals of select_and_load_files before it is entered
NoSelection ==
  /\ candidates = [r \in Reqs |-> <<>>]
  /\ structure_hint = [r \in Reqs |-> <<>>]
  /\ selected = [r \in Reqs |-> <<>>]
  /\ loaded_texts = [r \in Reqs |-> <<>>]
  /\ total_chars = [r \in Reqs |-> 0]
  /\ idx = [r \in Reqs |-> 0]
  /\ extracted_tech = [r \in Reqs |-> <<>>]
  /\ readme_obj = [r \in Reqs |-> NoObj]

\* select_and_load_files called once, by request 1, on any of the listings
InitSelect ==
  /\ pc = [r \in Reqs |-> IF r = 1 THEN "select" ELSE "off"]
  /\ \E t \in SelTrees : tree_items = [r \in Reqs |-> IF r = 1 THEN t ELSE <<>>]
  /\ NoSelection
  /\ NoFun
  /\ NoService
  /\ llm_enabled = FALSE
  /\ calls = [r \in Reqs |-> <<>>]
  /\ skips = [r \in Reqs |-> 0]
  /\ raised = [r \in Reqs |-> ""]

SelStep(r) ==
  \/ SelStart(r)
  \/ ReadmeDone(r)
  \/ ReadmeRaise(r)
  \/ LoopEnd(r)
  \/ BreakMaxFiles(r)
  \/ SkipReadme(r)
  \/ BreakBudget(r)
  \/ FetchRaise(r)
  \/ FetchSkip(r)
  \/ FetchSelect(r)
  \/ SelReturn(r)

NextSelect == \E r \in Reqs : SelStep(r)

SpecSelect == InitSelect /\ [][NextSelect]_vars

(***************************************************************************)
(* Claims about select_and_load_files, checked under SpecSelect            *)
(***************************************************************************)
Returned(r) == pc[r] = "selected"

PathsOf(sel) == [i \in 1..Len(sel) |-> sel[i].path]

\* C1: when select_and_load_files returns, the content lengths of the
\* selected files, the README entry included, sum to at most
\* max_total_context_chars.
C1_TotalWithinBudget ==
  \A r \in Reqs :
    Returned(r) => SumLen(selected[r]) <= max_total_context_chars

\* C2: at every point of select_and_load_files and when it returns, at most
\* max_files files are selected, the README entry counted.
C2_AtMostMaxFiles ==
  \A r \in Reqs : Len(selected[r]) <= max_files

\* C2 witness: the function has returned max_files entries, the first of
\* them the README, with candidates left over that the limit cut off.
C2_Witness ==
  /\ Returned(1)
  /\ Len(selected[1]) = max_files
  /\ selected[1][1].reason = "README"
  /\ idx[1] <= Len(candidates[1])

\* the README request was answered (the loop has begun or is over)
PastReadme(r) == pc[r] \in {"loop", "sel_done", "selected"}

\* C3: if get_readme returned non-empty, non-binary content, the README is
\* the first entry of the selection, and no later entry is a README-named
\* file, whatever README-named paths the listing holds.
C3_ReadmeFirstAndOnce ==
  \A r \in Reqs :
    (PastReadme(r) /\ ReadmeUsable(readme_obj[r])) =>
      /\ Len(selected[r]) >= 1
      /\ selected[r][1] = ReadmeEntry(readme_obj[r])
      /\ \A i \in 2..Len(selected[r]) :
           /\ selected[r][i].reason # "README"
           /\ ~IsReadmeName(PathName(selected[r][i].path))

\* C3 witness: a README was fetched, the listing holds README-named
\* candidates in a directory and under another spelling, and the function
\* returned the README followed by other files.
C3_Witness ==
  /\ Returned(1)
  /\ ReadmeUsable(readme_obj[1])
  /\ \E i, j \in 1..Len(candidates[1]) :
       /\ candidates[1][i].path = "docs/README.md"
       /\ candidates[1][j].path = "Readme.rst"
  /\ Len(selected[1]) > 2

\* C4: no entry of the returned selection has a path with a directory
\* segment of IGNORE_DIRS, a basename in IGNORE_FILES or an extension in
\* BINARY_EXTS, whichever call produced the entry.
C4_NoIgnoredPathSelected ==
  \A r \in Reqs :
    Returned(r) =>
      \A i \in 1..Len(selected[r]) : ~_ignored(selected[r][i].path)

\* the scenario of C6: the listing README.md, src/main.py, node_modules/x.js,
\* requirements.txt, every fetch succeeding, requirements.txt holding
\* flask==2.0 and requests
AcmeScenario(r) ==
  /\ Returned(r)
  /\ tree_items[r] = TreeAcme
  /\ skips[r] = 0
  /\ ReadmeUsable(readme_obj[r])
  /\ readme_obj[r].path = "README.md"
  /\ DictText(loaded_texts[r], "requirements.txt") = ReqFlask

TechHas(tech, name) == \E i \in 1..Len(tech) : tech[i] = T(name)

\* C6: in that scenario the selection is the README, then src/main.py, then
\* requirements.txt; node_modules/x.js is neither selected nor fetched; the
\* extracted technologies contain flask and requests.
C6_AcmeSelection ==
  \A r \in Reqs :
    AcmeScenario(r) =>
      /\ PathsOf(selected[r]) = <<"README.md", "src/main.py", "requirements.txt">>
      /\ \A i \in 1..Len(calls[r]) : calls[r][i].arg # "node_modules/x.js"
      /\ TechHas(extracted_tech[r], "flask")
      /\ TechHas(extracted_tech[r], "requests")

(***************************************************************************)
(* services/summarizer.py: RepoSummarizer._build_prompt                    *)
(***************************************************************************)
\* the ceiling of the user message
PromptCeiling == 55000

\* n copies of a text
RECURSIVE Rep(_, _)
Rep(t, n) ==
  IF n = 0 THEN <<>>
  ELSE IF n = 1 THEN t
  ELSE TCat(Rep(t, n \div 2), Rep(t, n - (n \div 2)))

HasChar(t, c) == \E i \in 1..Len(t) : t[i][1] = c

\* the quote repr() chooses: the double quote only if the string holds a
\* single quote and no double quote
ReprQuote(t) == IF HasChar(t, "'") /\ ~HasChar(t, "\"") THEN "\"" ELSE "'"

\* repr() of one character under the chosen quote
ReprChar(c, q) ==
  IF c = "\\" THEN T("\\\\")
  ELSE IF c = "\n" THEN T("\\n")
  ELSE IF c = "\r" THEN T("\\r")
  ELSE IF c = "\t" THEN T("\\t")
  ELSE IF c = "NUL" THEN T("\\x00")
  ELSE IF c = "CTL" THEN T("\\x01")
  ELSE IF c = q THEN T("\\" \o q)
  ELSE Run(c, 1)

RECURSIVE ReprBody(_, _)
ReprBody(t, q) ==
  IF t = <<>> THEN <<>>
  ELSE IF Len(t) = 1 THEN
    IF Len(ReprChar(t[1][1], q)) = 1 /\ ReprChar(t[1][1], q)[1][2] = 1
      THEN Run(ReprChar(t[1][1], q)[1][1], t[1][2])
      ELSE Rep(ReprChar(t[1][1], q), t[1][2])
  ELSE TCat(ReprBody(Left(t), q), ReprBody(Right(t), q))

\* repr() of a str
ReprStr(t) ==
  TCat(TCat(T(ReprQuote(t)), ReprBody(t, ReprQuote(t))), T(ReprQuote(t)))

\* f"{ctx.extracted_tech}": repr() of a list of str
ReprList(l) ==
  TCat(TCat(T("["), JoinTexts([i \in 1..Len(l) |-> ReprStr(l[i])], T(", "))),
       T("]"))

\* f"{ctx.languages}": repr() of a dict of str to int, a sequence of
\* <<name, bytes>> in insertion order
ReprDict(d) ==
  TCat(TCat(T("{"),
            JoinTexts([i \in 1..Len(d) |->
                         TCat(TCat(ReprStr(d[i][1]), T(": ")), T(Digits(d[i][2])))],
                      T(", "))),
       T("}"))

\* x or '(none)' for a str or None (None is the empty text here: both are falsy)
OrNone(t) == IF t = <<>> THEN T("(none)") ELSE t

\* f"## {f.path}  ({f.reason})\n{f.content}\n"
FileBlock(f) ==
  TCat(TCat(T("## " \o f.path \o "  (" \o f.reason \o ")\n"), f.content),
       T("\n"))

RepoContext(full_name, description, default_branch, langs, topics, homepage, hint, files, tech) ==
  [full_name |-> full_name, description |-> description,
   default_branch |-> default_branch, languages |-> langs,
   topics |-> topics, homepage |-> homepage, structure_hint |-> hint,
   selected_files |-> files, extracted_tech |-> tech]

user_payload(ctx) ==
  JoinTexts(
    << TCat(T("Repository: "), TCat(ctx.full_name, T("\n"))),
       TCat(T("Description: "), TCat(OrNone(ctx.description), T("\n"))),
       TCat(T("Default branch: "), TCat(ctx.default_branch, T("\n"))),
       TCat(T("Homepage: "), TCat(OrNone(ctx.homepage), T("\n"))),
       TCat(T("Topics: "),
            TCat(IF ctx.topics # <<>> THEN JoinTexts(ctx.topics, T(", "))
                 ELSE T("(none)"),
                 T("\n"))),
       TCat(T("GitHub languages(bytes): "), TCat(ReprDict(ctx.languages), T("\n"))),
       TCat(T("Extracted tech hints: "), TCat(ReprList(ctx.extracted_tech), T("\n"))),
       TCat(ctx.structure_hint, T("\n\n")),
       T("### Files (snippets)\n"),
       JoinTexts([i \in 1..Len(ctx.selected_files) |->
                    FileBlock(ctx.selected_files[i])], T("\n")) >>,
    <<>>)

SystemPrompt ==
  T("You are a senior software engineer. Summarize the GitHub repository using ONLY the provided data.\n")
  \o T("Return STRICT JSON with keys: summary, technologies, structure.\n")
  \o T("- summary: 4-8 sentences in markdown, mention what it does and primary use-cases.\n")
  \o T("- technologies: 5-15 concise strings (languages, frameworks, major libs, tooling). No versions.\n")
  \o T("- structure: 2-4 sentences describing directory layout and key files.\n")
  \o T("If something is unknown, say so briefly (do not hallucinate).\n")

Message(role, content) == [role |-> role, content |-> content]

_build_prompt(ctx) ==
  << Message("system", SystemPrompt),
     Message("user", truncate(user_payload(ctx), PromptCeiling)) >>

(***************************************************************************)
(* truncate and _build_prompt called on their own                          *)
(***************************************************************************)
FunCall(op, text, max_chars, ctx, file_texts) ==
  [op |-> op, text |-> text, max_chars |-> max_chars, ctx |-> ctx,
   file_texts |-> file_texts]

\* texts: empty, short, whitespace only, whitespace around the cuts, long
TruncateTexts ==
  { <<>>, T("a"), T("hello world"), Run(" ", 40), T("  ab  \n cd  "),
    Run("a", 100), Run("a", 70) \o Run(" ", 10) \o Run("b", 20),
    Exact12k, Long50k, LongSpaced, Run("z", 55000), Run("z", 55001),
    Run("y", 60000) \o Run("\n", 7) \o Run("z", 30000) }

\* budgets: the ones the program uses, and small ones down to 0
TruncateBudgets ==
  {0, 1, 2, 4, 5, 6, 10, 99, 100, BudgetFloor, PerFileCap, max_readme_chars,
   PromptCeiling}

NoCtx == RepoContext(<<>>, <<>>, <<>>, <<>>, <<>>, <<>>, <<>>, <<>>, <<>>)

CtxFiles(bodies) ==
  [i \in 1..Len(bodies) |->
     SelectedFile("src/f" \o Digits(i) \o ".py", "Main source directory",
                  bodies[i])]

\* a small repository
CtxSmall ==
  RepoContext(T("acme/widget"), T("A widget"), T("main"),
              << <<T("Python"), 1234>>, <<T("C"), 5>> >>,
              <<T("cli"), T("tools")>>, <<>>,
              T("Top-level structure: src/ (1), README.md"),
              <<SelectedFile("README.md", "README", T("# acme\n"))>>,
              <<T("flask"), T("it's"), T("a\\b")>>)

\* nothing but the names
CtxBare ==
  RepoContext(T("acme/empty"), <<>>, T("main"), <<>>, <<>>, <<>>,
              T("Top-level structure: (empty)"), <<>>, <<>>)

\* a selection that fills the file budget
CtxFull ==
  RepoContext(T("acme/big"), T("Big"), T("main"), <<<<T("Go"), 99>>>>, <<>>,
              T("https://acme.example"),
              T("Top-level structure: src/ (3)"),
              <<SelectedFile("README.md", "README", Run("r", max_readme_chars))>>
                \o CtxFiles(<<Run("a", PerFileCap), Run("b", PerFileCap),
                              Run("c", 2999)>>),
              <<>>)

\* the host's description is long
CtxLongDescription ==
  [CtxFull EXCEPT !.description = Run("d", 20000)]

\* the payload is one character under, at, and one over the ceiling
CtxNear(extra) ==
  [CtxBare EXCEPT !.description =
     Run("d", (PromptCeiling - TLen(user_payload(CtxBare))) + 6 + extra)]

PromptContexts ==
  {CtxSmall, CtxBare, CtxFull, CtxLongDescription,
   CtxNear(0 - 1), CtxNear(0), CtxNear(1)}

FunCalls ==
  {FunCall("truncate", t, b, NoCtx, <<>>) : t \in TruncateTexts, b \in TruncateBudgets}
  \cup {FunCall("_build_prompt", <<>>, 0, c, <<>>) : c \in PromptContexts}

\* truncate(text, max_chars) returns
TruncateReturns ==
  /\ fun_pc = "called"
  /\ fun_args.op = "truncate"
  /\ fun_ret' = truncate(fun_args.text, fun_args.max_chars)
  /\ fun_pc' = "returned"
  /\ UNCHANGED <<pc, selVars, calls, skips, raised, fun_args, svcVars>>

\* _build_prompt(ctx) returns
BuildPromptReturns ==
  /\ fun_pc = "called"
  /\ fun_args.op = "_build_prompt"
  /\ fun_ret' = _build_prompt(fun_args.ctx)
  /\ fun_pc' = "returned"
  /\ UNCHANGED <<pc, selVars, calls, skips, raised, fun_args, svcVars>>

NoRequests ==
  /\ NoService
  /\ llm_enabled = FALSE
  /\ pc = [r \in Reqs |-> "off"]
  /\ tree_items = [r \in Reqs |-> <<>>]
  /\ NoSelection
  /\ calls = [r \in Reqs |-> <<>>]
  /\ skips = [r \in Reqs |-> 0]
  /\ raised = [r \in Reqs |-> ""]

InitTruncate ==
  /\ NoRequests
  /\ fun_pc = "called"
  /\ fun_args \in FunCalls
  /\ fun_ret = <<>>

NextTruncate == TruncateReturns \/ BuildPromptReturns

SpecTruncate == InitTruncate /\ [][NextTruncate]_vars

\* C5: for every text and every budget B >= 0, truncate(text, B) has at
\* most B characters, and the user message of _build_prompt has at most
\* 55,000 characters.
C5_TruncateWithinBudget ==
  fun_pc = "returned" =>
    /\ fun_args.op = "truncate" => TLen(fun_ret) <= fun_args.max_chars
    /\ fun_args.op = "_build_prompt" => TLen(fun_ret[2].content) <= PromptCeiling

\* the first half of C5 alone
C5_TruncateOnly ==
  (fun_pc = "returned" /\ fun_args.op = "truncate") =>
    TLen(fun_ret) <= fun_args.max_chars

\* the second half of C5 alone
C5_PromptOnly ==
  (fun_pc = "returned" /\ fun_args.op = "_build_prompt") =>
    TLen(fun_ret[2].content) <= PromptCeiling

(***************************************************************************)
(* extract_tech_from_files called on its own                               *)
(***************************************************************************)
\* a file of the mapping, or its absence
Loaded(text) == [has |-> TRUE, text |-> text]
NotLoaded == [has |-> FALSE, text |-> <<>>]

\* the dict file_texts, keyed by path
FileTexts(req, pkg, pyproj) ==
  [n \in {f[1] : f \in {g \in {<<"requirements.txt", req>>,
                                <<"package.json", pkg>>,
                                <<"pyproject.toml", pyproj>>} : g[2].has}}
     |-> IF n = "requirements.txt" THEN req.text
         ELSE IF n = "package.json" THEN pkg.text
         ELSE pyproj.text]

\* more packages than the list may hold
NumPackages == 27
ReqMany ==
  JoinTexts([i \in 1..NumPackages |-> T("pkg" \o Digits(i) \o ">=1")], T("\n"))

TechReqs ==
  {NotLoaded, Loaded(<<>>), Loaded(ReqMany),
   Loaded(T("Django==4.2\ndjango>=4\n  # c\n[x]\n"))}
  \cup {Loaded(b) : b \in ReqBodies}

TechPkgs == {NotLoaded} \cup {Loaded(b) : b \in PkgBodies}

TechPyprojs == {NotLoaded} \cup {Loaded(b) : b \in PyprojBodies}

TechCalls ==
  {FunCall("extract_tech_from_files", <<>>, 0, NoCtx, FileTexts(a, b, c)) :
     a \in TechReqs, b \in TechPkgs, c \in TechPyprojs}

\* extract_tech_from_files(file_texts) returns
ExtractTechReturns ==
  /\ fun_pc = "called"
  /\ fun_args.op = "extract_tech_from_files"
  /\ fun_ret' = extract_tech_from_files(fun_args.file_texts)
  /\ fun_pc' = "returned"
  /\ UNCHANGED <<pc, selVars, calls, skips, raised, fun_args, svcVars>>

InitTech ==
  /\ NoRequests
  /\ fun_pc = "called"
  /\ fun_args \in TechCalls
  /\ fun_ret = <<>>

NextTech == ExtractTechReturns

SpecTech == InitTech /\ [][NextTech]_vars

TechReturned == fun_pc = "returned" /\ fun_args.op = "extract_tech_from_files"

\* C7: for every mapping of loaded file bodies, malformed manifests
\* included, extract_tech_from_files returns at most 25 entries, each of
\* them non-empty, no two of them equal when compared case-insensitively.
C7_TechListWellFormed ==
  TechReturned =>
    /\ Len(fun_ret) <= MaxTech
    /\ \A i \in 1..Len(fun_ret) : fun_ret[i] # <<>>
    /\ \A i, j \in 1..Len(fun_ret) :
         i # j => TLower(fun_ret[i]) # TLower(fun_ret[j])

\* the parts of C7, one at a time
C7_AtMostMaxTech == TechReturned => Len(fun_ret) <= MaxTech

C7_NoEmptyEntry ==
  TechReturned => \A i \in 1..Len(fun_ret) : fun_ret[i] # <<>>

C7_NoCaseDuplicate ==
  TechReturned =>
    \A i, j \in 1..Len(fun_ret) :
      i # j => TLower(fun_ret[i]) # TLower(fun_ret[j])

\* the cap is reached: more than 25 packages were named
C7_CapReached ==
  /\ TechReturned
  /\ Len(fun_ret) = MaxTech
  /\ DictText(fun_args.file_texts, "requirements.txt") = ReqMany

(***************************************************************************)
(* services/llm_client.py and services/summarizer.py: summarize            *)
(***************************************************************************)
\* how a chat completion ended: the message content (None reads as ""), or
\* an exception of the SDK
Completion(content) == [exc |-> FALSE, content |-> content]
CompletionFailure == [exc |-> TRUE, content |-> <<>>]

chat_json_schema(enabled, resp) ==
  IF ~enabled THEN Raise("UpstreamError", <<>>)
  ELSE IF resp.exc THEN Raise("UpstreamError", <<>>)
  ELSE Return(resp.content)

chat_json_object(enabled, resp) ==
  IF ~enabled THEN Raise("UpstreamError", <<>>)
  ELSE IF resp.exc THEN Raise("UpstreamError", <<>>)
  ELSE Return(resp.content)

HasKey(d, key) == T(key) \in DictKeys(d)

IsStrList(v) ==
  v.k = "list" /\ \A i \in 1..Len(v.items) : v.items[i].k = "str"

\* LlmSummary(**data): the three fields, or ok FALSE where it raises
LlmSummary(data) ==
  IF /\ data.k = "dict"
     /\ HasKey(data, "summary") /\ DictGet(data, T("summary")).k = "str"
     /\ HasKey(data, "technologies") /\ IsStrList(DictGet(data, T("technologies")))
     /\ HasKey(data, "structure") /\ DictGet(data, T("structure")).k = "str"
  THEN [ok |-> TRUE,
        val |-> Out(DictGet(data, T("summary")).items,
                    [i \in 1..Len(DictGet(data, T("technologies")).items) |->
                       DictGet(data, T("technologies")).items[i].items],
                    DictGet(data, T("structure")).items)]
  ELSE [ok |-> FALSE, val |-> NoOut]

\* json.loads(raw) followed by LlmSummary(**data)
DecodeText(raw) ==
  IF json_loads(raw).ok THEN LlmSummary(json_loads(raw).val)
  ELSE [ok |-> FALSE, val |-> NoOut]

\* the cap on the technologies of a summary
MaxTechnologies == 15

\* lines 79-90: strip, drop the blanks, keep the first of each lower-cased
\* spelling, cap
NormalizeTech(technologies) ==
  LET t2   == [i \in 1..Len(technologies) |-> TStrip(technologies[i])]
      kept == {i \in 1..Len(t2) :
                 /\ t2[i] # <<>>
                 /\ \A j \in 1..(i - 1) : TLower(t2[j]) # TLower(t2[i])}
      tech == [p \in 1..Cardinality(kept) |->
                 t2[CHOOSE i \in kept : Cardinality({j \in kept : j < i}) = p - 1]]
  IN  Prefix(tech, MaxTechnologies)

\* parsed.model_dump() after the normalisation
Normalized(parsed) ==
  Out(parsed.summary, NormalizeTech(parsed.technologies), parsed.structure)

(***************************************************************************)
(* services/summarize_service.py: the cache, the context, the fallback     *)
(***************************************************************************)
\* TTLCache(maxsize=512, ttl=600); the model stays far below maxsize
CacheTtl == 600

\* the entry is still served at the very second it expires
CacheHasLate(c, url, time) == url \in DOMAIN c /\ time <= c[url].expires

\* github_url in self.cache: the entry is there and has not expired
CacheHas(c, url, time) == url \in DOMAIN c /\ time < c[url].expires

\* the entries of c that have not expired
Unexpired(c, time) ==
  [u \in {v \in DOMAIN c : time < c[v].expires} |-> c[u]]

\* the store replaces the value of every entry
CachePutAll(c, url, value, time) ==
  [u \in DOMAIN Unexpired(c, time) \cup {url} |->
     [value |-> value, expires |-> time + CacheTtl]]

\* self.cache[github_url] = out: expired entries go, the new one is stored
CachePut(c, url, value, time) ==
  (url :> [value |-> value, expires |-> time + CacheTtl]) @@ Unexpired(c, time)

\* tree_items[:6000]
MaxTreeItems == 6000

\* the listing keeps the entries of every type, as files
RootItemsAll(root) ==
  [i \in 1..Len(root) |-> Item("blob", root[i].path, root[i].size)]

\* lines 45-51: the listing made of the root contents
RootItems(root) ==
  LET kept == {i \in 1..Len(root) : root[i].type \in {"file", "dir"}}
  IN  [p \in 1..Cardinality(kept) |->
         LET it == root[CHOOSE i \in kept : Cardinality({j \in kept : j < i}) = p - 1]
         IN  IF it.type = "file" THEN Item("blob", it.path, it.size)
             ELSE Item("tree", it.path, NoSize)]

\* repo_meta.get("default_branch") or "main"
DefaultBranch(meta) ==
  IF meta.default_branch = <<>> THEN T("main") ELSE meta.default_branch

\* lines 65-75
Context(r) ==
  RepoContext(
    IF repo_meta[r].full_name = <<>>
      THEN T(parse_repo_url(github_url[r]).val[1] \o "/"
             \o parse_repo_url(github_url[r]).val[2])
      ELSE repo_meta[r].full_name,
    repo_meta[r].description,
    DefaultBranch(repo_meta[r]),
    languages[r],
    repo_meta[r].topics,
    repo_meta[r].homepage,
    structure_hint[r],
    selected[r],
    extracted_tech[r])

\* list((list(languages.keys()) + extracted_tech)[:12]) or ["Unknown"]
FallbackShown == 12

FallbackTech(ctx) ==
  LET l == Prefix([i \in 1..Len(ctx.languages) |-> ctx.languages[i][1]]
                  \o ctx.extracted_tech, FallbackShown)
  IN  IF l = <<>> THEN <<T("Unknown")>> ELSE l

\* lines 80-88
FallbackOut(ctx) ==
  Out(JoinTexts(<< T("**"), ctx.full_name,
                   T("** is a software repository. GitHub description: "),
                   IF ctx.description = <<>> THEN T("N/A") ELSE ctx.description,
                   T(". This response was generated without an LLM because "),
                   Run("BQ", 1), T("NEBIUS_API_KEY"), Run("BQ", 1),
                   T(" is not set.") >>, <<>>),
      FallbackTech(ctx),
      ctx.structure_hint)

(***************************************************************************)
(* Inputs of the service: URLs, and what the host and the LLM answer       *)
(***************************************************************************)
UrlWidget == "https://github.com/acme/widget"
Urls ==
  { UrlWidget, "https://gitlab.com/acme/widget", "https://github.com/acme",
    "git@github.com:acme/widget.git" }

MetaWidget ==
  Meta(T("acme/widget"), T("A widget"), T("trunk"), <<T("cli")>>,
       T("https://acme.example"))

RepoExchanges ==
  {Http(200, MetaWidget), Http(200, NoMeta), Http(404, NoMeta), Http(500, NoMeta)}

LanguageExchanges == {Http(200, << <<T("Python"), 1234>> >>), Http(403, <<>>)}

BranchExchanges == {Http(200, [sha |-> "abc123"]), Http(404, [sha |-> ""])}

TreeExchanges ==
  { Http(200, TreeJson(TreeWidget, FALSE)),
    Http(200, TreeJson(TreeHeavy, FALSE)),
    Http(200, TreeJson(TreeWide, FALSE)),
    Http(200, TreeJson(TreeCut, TRUE)),
    Http(502, TreeJson(<<>>, FALSE)) }

RootExchanges ==
  { Http(200, RootJson(TRUE, RootWidget)),
    Http(200, RootJson(FALSE, <<>>)),
    Http(404, RootJson(FALSE, <<>>)) }

\* more technologies than a summary keeps
NumTechnologies == 17

LlmGood ==
  T("{\"summary\": \"A widget library.\", \"technologies\": [\"Python\", \" python \", \"\", \"Flask\"], \"structure\": \"src/ holds the code.\"}")

LlmMany ==
  TCat(T("{\"structure\": \"flat\", \"summary\": \"Many.\", \"technologies\": [\""),
       TCat(JoinTexts([i \in 1..NumTechnologies |-> T("t" \o Digits(i))],
                      T("\", \"")),
            T("\"], \"extra\": null}")))

Undecodable ==
  { <<>>, T("Sure! Here is the summary."), T("[1, 2]"),
    T("{\"summary\": \"x\", \"technologies\": \"Python\", \"structure\": \"y\"}"),
    T("{\"summary\": \"x\", \"technologies\": [\"Python\", 3], \"structure\": \"y\"}"),
    T("{\"summary\": \"x\", \"technologies\": []}") }

LlmContents == {LlmGood, LlmMany} \cup Undecodable

Completions == {Completion(c) : c \in LlmContents}

\* DecodeText on the contents above, computed once
Decoded == {<<c, DecodeText(c)>> : c \in LlmContents}

Decode(raw) ==
  IF raw \in LlmContents THEN (CHOOSE d \in Decoded : d[1] = raw)[2]
  ELSE DecodeText(raw)

\* the normalised summary of the contents that decode, computed once
Dumped ==
  {<<d[1], Normalized(d[2].val)>> : d \in {e \in Decoded : e[2].ok}}

\* lines 79-92 on a response that decodes
model_dump(raw) ==
  IF raw \in LlmContents THEN (CHOOSE d \in Dumped : d[1] = raw)[2]
  ELSE Normalized(DecodeText(raw).val)

(***************************************************************************)
(* summarize_repo, step by step.  After "off" a request is at              *)
(*   "get_repo", "get_languages", "get_branch", "get_tree", "get_root"     *)
(*               awaiting that call of the host                            *)
(*   "select" .. "selected" | "failed"   inside select_and_load_files      *)
(*   "llm_schema", "llm_object"          awaiting that call of the LLM     *)
(*   "done"      answered: status holds the HTTP status                    *)
(***************************************************************************)
\* requests of one client: at most this many, one after the other
MaxArrivals == 2

\* the clock advances in steps of this many seconds, up to MaxTime
TickStep == 300
MaxTime == 600

\* a request arrives when none is being served, and takes the first slot
Arrives(r) ==
  /\ arrivals < MaxArrivals
  /\ \A q \in Reqs : pc[q] = "off"
  /\ \A q \in Reqs : r <= q

\* owner/repo, as the calls carry it
RepoArg(url) ==
  parse_repo_url(url).val[1] \o "/" \o parse_repo_url(url).val[2]

Issue(r, op) == Set(calls, r, Append(calls[r], Call(op, RepoArg(github_url[r]))))

\* the request ends with an exception of this kind, which a handler of
\* main.py turns into the response
Fails(r, kind) ==
  /\ raised' = Set(raised, r, kind)
  /\ status' = Set(status, r, error_response(kind))
  /\ pc' = Set(pc, r, "done")
  /\ UNCHANGED <<selVars, calls, skips, funVars, github_url, repo_meta,
                 languages, out, cache, now, arrivals, llm_enabled>>

\* lines 27-28: the URL is in the cache
CacheHit(r) ==
  /\ Arrives(r)
  /\ \E url \in Urls :
       /\ CacheHas(cache, url, now)
       /\ github_url' = Set(github_url, r, url)
       /\ out' = Set(out, r, cache[url].value)
  /\ status' = Set(status, r, 200)
  /\ pc' = Set(pc, r, "done")
  /\ arrivals' = arrivals + 1
  /\ UNCHANGED <<selVars, calls, skips, raised, funVars, repo_meta, languages,
                 cache, now, llm_enabled>>

\* lines 27-30: the URL is not in the cache and parse_repo_url raises
RejectUrl(r) ==
  /\ Arrives(r)
  /\ \E url \in Urls :
       /\ ~CacheHas(cache, url, now)
       /\ parse_repo_url(url).raised # ""
       /\ github_url' = Set(github_url, r, url)
       /\ raised' = Set(raised, r, parse_repo_url(url).raised)
       /\ status' = Set(status, r, error_response(parse_repo_url(url).raised))
  /\ pc' = Set(pc, r, "done")
  /\ arrivals' = arrivals + 1
  /\ UNCHANGED <<selVars, calls, skips, funVars, repo_meta, languages, out,
                 cache, now, llm_enabled>>

\* lines 27-31: the URL is not in the cache, parses, and get_repo goes out
StartRepo(r) ==
  /\ Arrives(r)
  /\ \E url \in Urls :
       /\ ~CacheHas(cache, url, now)
       /\ parse_repo_url(url).raised = ""
       /\ github_url' = Set(github_url, r, url)
       /\ calls' = Set(calls, r, Append(calls[r], Call("get_repo", RepoArg(url))))
  /\ pc' = Set(pc, r, "get_repo")
  /\ arrivals' = arrivals + 1
  /\ UNCHANGED <<selVars, skips, raised, funVars, repo_meta, languages, out,
                 status, cache, now, llm_enabled>>

\* line 31 returns; line 34 issues get_languages
RepoReturns(r) ==
  /\ pc[r] = "get_repo"
  /\ \E resp \in RepoExchanges :
       /\ get_repo(resp).raised = ""
       /\ repo_meta' = Set(repo_meta, r, get_repo(resp).val)
  /\ calls' = Issue(r, "get_languages")
  /\ pc' = Set(pc, r, "get_languages")
  /\ UNCHANGED <<selVars, skips, raised, funVars, github_url, languages, out,
                 status, cache, now, arrivals, llm_enabled>>

\* line 31 raises: the host refused, or the transport failed
RepoRaises(r) ==
  /\ pc[r] = "get_repo"
  /\ \E resp \in RepoExchanges \cup {TransportFailure(NoMeta)} :
       /\ get_repo(resp).raised # ""
       /\ Fails(r, get_repo(resp).raised)

\* line 34 returns; line 39 issues get_branch_tree_sha
LanguagesReturns(r) ==
  /\ pc[r] = "get_languages"
  /\ \E resp \in LanguageExchanges :
       /\ get_languages(resp).raised = ""
       /\ languages' = Set(languages, r, get_languages(resp).val)
  /\ calls' = Issue(r, "get_branch_tree_sha")
  /\ pc' = Set(pc, r, "get_branch")
  /\ UNCHANGED <<selVars, skips, raised, funVars, github_url, repo_meta, out,
                 status, cache, now, arrivals, llm_enabled>>

\* line 34 raises: the transport failed
LanguagesRaises(r) ==
  /\ pc[r] = "get_languages"
  /\ Fails(r, get_languages(TransportFailure(<<>>)).raised)

\* line 39 returns; line 40 issues get_tree
BranchReturns(r) ==
  /\ pc[r] = "get_branch"
  /\ \E resp \in BranchExchanges : get_branch_tree_sha(resp).raised = ""
  /\ calls' = Issue(r, "get_tree")
  /\ pc' = Set(pc, r, "get_tree")
  /\ UNCHANGED <<selVars, skips, raised, funVars, reqVars, cache, now,
                 arrivals, llm_enabled>>

\* line 39 raises
BranchRaises(r) ==
  /\ pc[r] = "get_branch"
  /\ \E resp \in BranchExchanges \cup {TransportFailure([sha |-> ""])} :
       /\ get_branch_tree_sha(resp).raised # ""
       /\ Fails(r, get_branch_tree_sha(resp).raised)

\* lines 40-57: the tree is whole; select_and_load_files is entered
TreeReturns(r) ==
  /\ pc[r] = "get_tree"
  /\ \E resp \in TreeExchanges :
       /\ get_tree(resp).raised = ""
       /\ ~get_tree(resp).val.truncated
       /\ tree_items' =
            Set(tree_items, r, Prefix(get_tree(resp).val.tree, MaxTreeItems))
  /\ pc' = Set(pc, r, "select")
  /\ UNCHANGED <<candidates, structure_hint, selected, loaded_texts,
                 total_chars, idx, extracted_tech, readme_obj, calls, skips,
                 raised, funVars, svcVars>>

\* lines 40-44: the tree is truncated; get_root_contents goes out
TreeTruncated(r) ==
  /\ pc[r] = "get_tree"
  /\ \E resp \in TreeExchanges :
       /\ get_tree(resp).raised = ""
       /\ get_tree(resp).val.truncated
  /\ calls' = Issue(r, "get_root_contents")
  /\ pc' = Set(pc, r, "get_root")
  /\ UNCHANGED <<selVars, skips, raised, funVars, svcVars>>

\* line 40 raises
TreeRaises(r) ==
  /\ pc[r] = "get_tree"
  /\ \E resp \in TreeExchanges \cup {TransportFailure(TreeJson(<<>>, FALSE))} :
       /\ get_tree(resp).raised # ""
       /\ Fails(r, get_tree(resp).raised)

\* lines 44-57: the root contents make the listing
RootReturns(r) ==
  /\ pc[r] = "get_root"
  /\ \E resp \in RootExchanges :
       /\ get_root_contents(resp).raised = ""
       /\ tree_items' =
            Set(tree_items, r,
                Prefix(RootItems(get_root_contents(resp).val), MaxTreeItems))
  /\ pc' = Set(pc, r, "select")
  /\ UNCHANGED <<candidates, structure_hint, selected, loaded_texts,
                 total_chars, idx, extracted_tech, readme_obj, calls, skips,
                 raised, funVars, svcVars>>

\* line 44 raises: the transport failed
RootRaises(r) ==
  /\ pc[r] = "get_root"
  /\ Fails(r, get_root_contents(TransportFailure(RootJson(FALSE, <<>>))).raised)

\* line 57 raises: select_and_load_files was left by an exception
SelectionRaises(r) ==
  /\ pc[r] = "failed"
  /\ Fails(r, raised[r])

\* what the request is answered with, and the cache entry that goes with it
Answers(r, value) ==
  /\ out' = Set(out, r, value)
  /\ cache' = CachePut(cache, github_url[r], value, now)
  /\ status' = Set(status, r, 200)
  /\ pc' = Set(pc, r, "done")

\* lines 77-90: the LLM is disabled
FallbackReturns(r) ==
  /\ pc[r] = "selected"
  /\ ~llm_enabled
  /\ Answers(r, FallbackOut(Context(r)))
  /\ UNCHANGED <<selVars, calls, skips, raised, funVars, github_url, repo_meta,
                 languages, now, arrivals, llm_enabled>>

\* line 92, summarize lines 65-69: the strict-schema call goes out
StrictCall(r) ==
  /\ pc[r] = "selected"
  /\ llm_enabled
  /\ calls' = Issue(r, "chat_json_schema")
  /\ pc' = Set(pc, r, "llm_schema")
  /\ UNCHANGED <<selVars, skips, raised, funVars, svcVars>>

\* lines 69-73, 79-92: the strict response decodes
StrictReturns(r) ==
  /\ pc[r] = "llm_schema"
  /\ \E resp \in Completions :
       /\ chat_json_schema(llm_enabled, resp).raised = ""
       /\ Decode(chat_json_schema(llm_enabled, resp).val).ok
       /\ Answers(r, model_dump(chat_json_schema(llm_enabled, resp).val))
  /\ UNCHANGED <<selVars, calls, skips, raised, funVars, github_url, repo_meta,
                 languages, now, arrivals, llm_enabled>>

\* line 69: the strict call raises
StrictRaises(r) ==
  /\ pc[r] = "llm_schema"
  /\ Fails(r, chat_json_schema(llm_enabled, CompletionFailure).raised)

\* lines 69-75: the strict response does not decode; the JSON-object call
\* goes out
StrictUndecodable(r) ==
  /\ pc[r] = "llm_schema"
  /\ \E resp \in Completions :
       /\ chat_json_schema(llm_enabled, resp).raised = ""
       /\ ~Decode(chat_json_schema(llm_enabled, resp).val).ok
  /\ calls' = Issue(r, "chat_json_object")
  /\ pc' = Set(pc, r, "llm_object")
  /\ UNCHANGED <<selVars, skips, raised, funVars, svcVars>>

\* lines 75-92: the second response decodes
ObjectReturns(r) ==
  /\ pc[r] = "llm_object"
  /\ \E resp \in Completions :
       /\ chat_json_object(llm_enabled, resp).raised = ""
       /\ Decode(chat_json_object(llm_enabled, resp).val).ok
       /\ Answers(r, model_dump(chat_json_object(llm_enabled, resp).val))
  /\ UNCHANGED <<selVars, calls, skips, raised, funVars, github_url, repo_meta,
                 languages, now, arrivals, llm_enabled>>

\* line 75: the second call raises
ObjectRaises(r) ==
  /\ pc[r] = "llm_object"
  /\ Fails(r, chat_json_object(llm_enabled, CompletionFailure).raised)

\* lines 76-77: json.loads or LlmSummary raises inside the except block;
\* nothing catches it
ObjectUndecodable(r) ==
  /\ pc[r] = "llm_object"
  /\ \E resp \in Completions :
       /\ chat_json_object(llm_enabled, resp).raised = ""
       /\ ~Decode(chat_json_object(llm_enabled, resp).val).ok
  /\ Fails(r, "Unexpected")

\* the response is out and the locals of the request are gone
Retire(r) ==
  /\ pc[r] = "done"
  /\ pc' = Set(pc, r, "off")
  /\ tree_items' = Set(tree_items, r, <<>>)
  /\ candidates' = Set(candidates, r, <<>>)
  /\ structure_hint' = Set(structure_hint, r, <<>>)
  /\ selected' = Set(selected, r, <<>>)
  /\ loaded_texts' = Set(loaded_texts, r, <<>>)
  /\ total_chars' = Set(total_chars, r, 0)
  /\ idx' = Set(idx, r, 0)
  /\ extracted_tech' = Set(extracted_tech, r, <<>>)
  /\ readme_obj' = Set(readme_obj, r, NoObj)
  /\ calls' = Set(calls, r, <<>>)
  /\ skips' = Set(skips, r, 0)
  /\ raised' = Set(raised, r, "")
  /\ github_url' = Set(github_url, r, "")
  /\ repo_meta' = Set(repo_meta, r, NoMeta)
  /\ languages' = Set(languages, r, <<>>)
  /\ out' = Set(out, r, NoOut)
  /\ status' = Set(status, r, 0)
  /\ UNCHANGED <<funVars, cache, now, arrivals, llm_enabled>>

\* time passes; a request is short beside a step of the clock, which
\* advances between requests
Tick ==
  /\ \A q \in Reqs : pc[q] = "off"
  /\ now + TickStep <= MaxTime
  /\ now' = now + TickStep
  /\ UNCHANGED <<pc, selVars, calls, skips, raised, funVars, reqVars, cache,
                 arrivals, llm_enabled>>

SvcStep(r) ==
  \/ CacheHit(r)
  \/ RejectUrl(r)
  \/ StartRepo(r)
  \/ RepoReturns(r)
  \/ RepoRaises(r)
  \/ LanguagesReturns(r)
  \/ LanguagesRaises(r)
  \/ BranchReturns(r)
  \/ BranchRaises(r)
  \/ TreeReturns(r)
  \/ TreeTruncated(r)
  \/ TreeRaises(r)
  \/ RootReturns(r)
  \/ RootRaises(r)
  \/ SelStep(r)
  \/ SelectionRaises(r)
  \/ FallbackReturns(r)
  \/ StrictCall(r)
  \/ StrictReturns(r)
  \/ StrictRaises(r)
  \/ StrictUndecodable(r)
  \/ ObjectReturns(r)
  \/ ObjectRaises(r)
  \/ ObjectUndecodable(r)
  \/ Retire(r)

\* the service as constructed, with or without an API key
InitService ==
  /\ pc = [r \in Reqs |-> "off"]
  /\ tree_items = [r \in Reqs |-> <<>>]
  /\ NoSelection
  /\ NoFun
  /\ NoService
  /\ llm_enabled \in BOOLEAN
  /\ calls = [r \in Reqs |-> <<>>]
  /\ skips = [r \in Reqs |-> 0]
  /\ raised = [r \in Reqs |-> ""]

NextService == Tick \/ \E r \in Reqs : SvcStep(r)

SpecService == InitService /\ [][NextService]_vars

(***************************************************************************)
(* Claims about summarize_repo, checked under SpecService                  *)
(***************************************************************************)
HostOps ==
  {"get_repo", "get_languages", "get_branch_tree_sha", "get_tree",
   "get_root_contents", "get_readme", "get_file"}

LlmOps == {"chat_json_schema", "chat_json_object"}

Answered(r) == pc[r] = "done"

\* request r was made with a URL that the pattern does not match and that
\* the cache does not hold
BadUrl(r) ==
  /\ github_url[r] # ""
  /\ ~GITHUB_REPO_RE(github_url[r]).matched
  /\ ~CacheHas(cache, github_url[r], now)

\* C8: a request whose URL does not match the repository URL pattern and is
\* not in the cache ends with InvalidInput and status 400, having issued no
\* call to the host or the LLM, and the step that serves it leaves the cache
\* as it was.
C8_InvalidUrlRejected ==
  /\ [](\A r \in Reqs :
          BadUrl(r) =>
            /\ Answered(r)
            /\ raised[r] = "InvalidInput"
            /\ status[r] = 400
            /\ calls[r] = <<>>)
  /\ [][\A r \in Reqs : BadUrl(r)' => cache' = cache]_vars

\* C8 witness: with an entry in the cache, a request with a URL of another
\* host has been answered 400 without a call.
C8_Witness ==
  \E r \in Reqs :
    /\ BadUrl(r)
    /\ Answered(r)
    /\ status[r] = 400
    /\ calls[r] = <<>>
    /\ DOMAIN cache # {}

LastCall(r) == calls[r][Len(calls[r])]

\* the request ended with an exception out of a call of the host
FailedAtHost(r) ==
  /\ Answered(r)
  /\ raised[r] # ""
  /\ calls[r] # <<>>
  /\ LastCall(r).op \in HostOps

\* C9: a failed call of the host, refused or broken in transport, ends the
\* request only with an error of the taxonomy; a transport failure is
\* answered 502 and never 500.
C9_HostFailuresInTaxonomy ==
  \A r \in Reqs :
    FailedAtHost(r) =>
      /\ raised[r] \in AppErrors
      /\ status[r] \in {400, 404, 502}

\* the host refused (a status of 400 or more) where the code raises: these
\* failures do stay in the taxonomy
C9_RefusalsInTaxonomy ==
  \A r \in Reqs :
    (FailedAtHost(r) /\ raised[r] # "TransportError") =>
      /\ raised[r] \in AppErrors
      /\ status[r] \in {404, 502}

CountOp(r, op) == Cardinality({i \in 1..Len(calls[r]) : calls[r][i].op = op})

\* the request ended with an exception after a call of the LLM
FailedAtLlm(r) ==
  /\ Answered(r)
  /\ raised[r] # ""
  /\ calls[r] # <<>>
  /\ LastCall(r).op \in LlmOps

\* C10: summarize issues the strict-schema call at most once and the
\* JSON-object call at most once, the second only after the first; a request
\* that fails in the LLM stage, by transport or because neither response
\* decodes, ends with UpstreamError and status 502.
C10_TwoStageDecode ==
  \A r \in Reqs :
    /\ CountOp(r, "chat_json_schema") <= 1
    /\ CountOp(r, "chat_json_object") <= CountOp(r, "chat_json_schema")
    /\ FailedAtLlm(r) => (raised[r] = "UpstreamError" /\ status[r] = 502)

\* the bounded part of C10 alone: one strict call, at most one second call
C10_AtMostTwoCalls ==
  \A r \in Reqs :
    /\ CountOp(r, "chat_json_schema") <= 1
    /\ CountOp(r, "chat_json_object") <= CountOp(r, "chat_json_schema")

(***************************************************************************)
(* C11: the cache across requests                                          *)
(***************************************************************************)
\* request r starts in this step, for this URL
Starts(r, url) == pc[r] = "off" /\ pc'[r] # "off" /\ github_url'[r] = url

\* the cache holds a result for the URL that was stored less than CacheTtl
\* seconds ago
StoredWithinTtl(url) ==
  /\ url \in DOMAIN cache
  /\ now - (cache[url].expires - CacheTtl) < CacheTtl

C11_ExpiredRunsAgain ==
  \E r \in Reqs :
    /\ pc[r] = "get_repo"
    /\ github_url[r] \in DOMAIN cache
    /\ now >= cache[github_url[r]].expires

(***************************************************************************)
(* C12: the listing after a truncated tree                                 *)
(***************************************************************************)
\* the root listings get_root_contents can return
RootListings == {get_root_contents(resp).val : resp \in RootExchanges}

\* request r went on from get_root_contents with a listing
FellBack(r) ==
  /\ CountOp(r, "get_root_contents") >= 1
  /\ pc[r] # "get_root"
  /\ ~(raised[r] # "" /\ LastCall(r).op = "get_root_contents")

\* the entries of a root listing that are files or directories, in order
FilesAndDirs(root) == SelectSeq(root, LAMBDA it : it.type \in {"file", "dir"})

\* the listing is made of these root entries, one item each, in order
MadeOf(items, entries) ==
  /\ Len(items) = Len(entries)
  /\ \A i \in 1..Len(items) :
       /\ items[i].path = entries[i].path
       /\ items[i].type = (IF entries[i].type = "file" THEN "blob" ELSE "tree")

OneSegment(path) == Len(Parts(path)) = 1

\* C12 as stated: after a truncated tree the listing handed to selection is
\* made of all the entries get_root_contents returned
C12_ExactlyRootEntries ==
  \A r \in Reqs :
    FellBack(r) =>
      \E root \in RootListings : PathsOf(tree_items[r]) = PathsOf(root)

\* C12: after a truncated tree the listing handed to selection is made of
\* the file and directory entries get_root_contents returned, in order, and
\* of nothing else (entries of other types, such as symlinks, are left
\* out); every candidate and every fetched path has one segment; get_tree
\* was called once.
C12_RootListingOnly ==
  \A r \in Reqs :
    FellBack(r) =>
      /\ \E root \in RootListings : MadeOf(tree_items[r], FilesAndDirs(root))
      /\ \A i \in 1..Len(candidates[r]) : OneSegment(candidates[r][i].path)
      /\ \A i \in 1..Len(calls[r]) :
           calls[r][i].op = "get_file" => OneSegment(calls[r][i].arg)
      /\ CountOp(r, "get_tree") = 1

\* a request fell back to the root listing and fetched a file of it
C12_Witness ==
  \E r \in Reqs :
    /\ FellBack(r)
    /\ tree_items[r] # <<>>
    /\ CountOp(r, "get_file") >= 1

(***************************************************************************)
(* C13: the summary made without the LLM                                   *)
(***************************************************************************)
\* get_repo, get_branch_tree_sha and get_tree of request r have returned
TreeSucceeded(r) ==
  /\ CountOp(r, "get_tree") >= 1
  /\ pc[r] # "get_tree"
  /\ ~(raised[r] # "" /\ LastCall(r).op = "get_tree")

\* request r was answered with the summary made without the LLM, which is
\* in the cache under its URL
FallbackAnswer(r) ==
  /\ status[r] = 200
  /\ raised[r] = ""
  /\ TContains(out[r].summary, repo_meta[r].description)
  /\ out[r].technologies # <<>>
  /\ out[r].structure = structure_hint[r]
  /\ github_url[r] \in DOMAIN cache
  /\ cache[github_url[r]].value = out[r]

\* C13: without an API key, a request whose get_repo, get_branch_tree_sha
\* and get_tree calls succeeded never calls the LLM and, when it is
\* answered, is answered with a successful result {summary, technologies,
\* structure} whose summary contains the repository description and which
\* is in the cache under the request's URL.
C13_FallbackSummary ==
  \A r \in Reqs :
    (~llm_enabled /\ TreeSucceeded(r)) =>
      /\ \A i \in 1..Len(calls[r]) : calls[r][i].op \notin LlmOps
      /\ Answered(r) => FallbackAnswer(r)

\* the same, for the requests that no transport failure ended
C13_UnlessTransportFails ==
  \A r \in Reqs :
    (~llm_enabled /\ TreeSucceeded(r) /\ raised[r] # "TransportError") =>
      /\ \A i \in 1..Len(calls[r]) : calls[r][i].op \notin LlmOps
      /\ Answered(r) => FallbackAnswer(r)

\* a request was answered with the summary made without the LLM
C13_Answered ==
  \E r \in Reqs :
    /\ ~llm_enabled
    /\ TreeSucceeded(r)
    /\ Answered(r)
    /\ FallbackAnswer(r)
    /\ repo_meta[r].description # <<>>

(***************************************************************************)
(* Concurrent requests                                                     *)
(* summarize_repo (src/services/summarize_service.py, lines 26-94) is a    *)
(* coroutine: requests interleave at its await expressions and nowhere     *)
(* else.  The actions below follow one request from await to await; what   *)
(* the awaited calls return is left open, and any await can raise or be    *)
(* cancelled.  Between the last await and the store into the cache there   *)
(* is no await.                                                            *)
(***************************************************************************)

\* requests that may arrive while others are being served
MaxConcArrivals == 2

UrlGadget == "https://github.com/acme/gadget"
ConcUrls == {UrlWidget, UrlGadget, "https://github.com/acme"}

\* the await expressions of summarize_repo: lines 31, 34, 39, 40, 44, 57, 92
Awaits ==
  { "get_repo", "get_languages", "get_branch", "get_tree", "get_root",
    "select", "summarize" }

\* the await that follows await p, or "return" when the function stores its
\* result and returns (lines 89-90 without the LLM, lines 93-94 with it)
NextAwait(p, truncated, enabled) ==
  IF p = "get_repo" THEN "get_languages"
  ELSE IF p = "get_languages" THEN "get_branch"
  ELSE IF p = "get_branch" THEN "get_tree"
  ELSE IF p = "get_tree" THEN (IF truncated THEN "get_root" ELSE "select")
  ELSE IF p = "get_root" THEN "select"
  ELSE IF p = "select" THEN (IF enabled THEN "summarize" ELSE "return")
  ELSE "return"

\* the results a run for url can end with: the host and the LLM may answer
\* two runs differently
ConcResults(url) ==
  { Out(T(url), <<T(v)>>, T("src/")) : v \in {"Python", "Go"} }

ConcArrives(r) ==
  /\ arrivals < MaxConcArrivals
  /\ pc[r] = "off"

\* lines 27-28, while other requests are in flight
ConcHit(r) ==
  /\ ConcArrives(r)
  /\ \E url \in ConcUrls :
       /\ CacheHas(cache, url, now)
       /\ github_url' = Set(github_url, r, url)
       /\ out' = Set(out, r, cache[url].value)
  /\ status' = Set(status, r, 200)
  /\ pc' = Set(pc, r, "done")
  /\ arrivals' = arrivals + 1
  /\ UNCHANGED <<selVars, calls, skips, raised, funVars, repo_meta, languages,
                 cache, now, llm_enabled>>

\* lines 27-30, while other requests are in flight
ConcRejects(r) ==
  /\ ConcArrives(r)
  /\ \E url \in ConcUrls :
       /\ ~CacheHas(cache, url, now)
       /\ parse_repo_url(url).raised # ""
       /\ github_url' = Set(github_url, r, url)
       /\ raised' = Set(raised, r, parse_repo_url(url).raised)
       /\ status' = Set(status, r, error_response(parse_repo_url(url).raised))
  /\ pc' = Set(pc, r, "done")
  /\ arrivals' = arrivals + 1
  /\ UNCHANGED <<selVars, calls, skips, funVars, repo_meta, languages, out,
                 cache, now, llm_enabled>>

\* lines 27-31: a miss starts the pipeline, whatever the other requests do
ConcStarts(r) ==
  /\ ConcArrives(r)
  /\ \E url \in ConcUrls :
       /\ ~CacheHas(cache, url, now)
       /\ parse_repo_url(url).raised = ""
       /\ github_url' = Set(github_url, r, url)
       /\ calls' = Set(calls, r, <<Call("get_repo", RepoArg(url))>>)
  /\ pc' = Set(pc, r, "get_repo")
  /\ arrivals' = arrivals + 1
  /\ UNCHANGED <<selVars, skips, raised, funVars, repo_meta, languages, out,
                 status, cache, now, llm_enabled>>

\* an await returns and the request runs up to its next await
Resumes(r) ==
  /\ pc[r] \in Awaits
  /\ \E truncated \in BOOLEAN :
       /\ NextAwait(pc[r], truncated, llm_enabled) # "return"
       /\ pc' = Set(pc, r, NextAwait(pc[r], truncated, llm_enabled))
       /\ calls' = Set(calls, r, Append(calls[r],
              Call(NextAwait(pc[r], truncated, llm_enabled), RepoArg(github_url[r]))))
  /\ UNCHANGED <<selVars, skips, raised, funVars, reqVars, cache, now,
                 arrivals, llm_enabled>>

\* the last await returns: lines 77-90 or 92-94 build the result, store it
\* and return it
Completes(r) ==
  /\ pc[r] \in Awaits
  /\ NextAwait(pc[r], FALSE, llm_enabled) = "return"
  /\ \E value \in ConcResults(github_url[r]) : Answers(r, value)
  /\ UNCHANGED <<selVars, calls, skips, raised, funVars, github_url, repo_meta,
                 languages, now, arrivals, llm_enabled>>

\* an await raises: an AppError of the clients, or any other exception
Raises(r) ==
  /\ pc[r] \in Awaits
  /\ \E kind \in {"NotFound", "UpstreamError", "TransportError"} : Fails(r, kind)

\* the request is cancelled at an await: CancelledError leaves summarize_repo
\* and no response is sent
Abandons(r) ==
  /\ pc[r] \in Awaits
  /\ raised' = Set(raised, r, "CancelledError")
  /\ pc' = Set(pc, r, "done")
  /\ UNCHANGED <<selVars, calls, skips, funVars, reqVars, cache, now,
                 arrivals, llm_enabled>>

\* time passes, whatever the requests are doing
Passes ==
  /\ now + TickStep <= MaxTime
  /\ now' = now + TickStep
  /\ UNCHANGED <<pc, selVars, calls, skips, raised, funVars, reqVars, cache,
                 arrivals, llm_enabled>>

ConcStep(r) ==
  \/ ConcHit(r)
  \/ ConcRejects(r)
  \/ ConcStarts(r)
  \/ Resumes(r)
  \/ Completes(r)
  \/ Raises(r)
  \/ Abandons(r)
  \/ Retire(r)

NextConcurrent == Passes \/ \E r \in Reqs : ConcStep(r)

SpecConcurrent == InitService /\ [][NextConcurrent]_vars

\* the request leaves its last await with a result
Finishes(r) ==
  /\ pc[r] = (IF llm_enabled THEN "summarize" ELSE "select")
  /\ pc'[r] = "done"
  /\ status'[r] = 200

\* both requests ran the pipeline for url and both came to its end
BothRan(url) ==
  \A r \in Reqs :
    /\ pc[r] = "done"
    /\ github_url[r] = url
    /\ status[r] = 200
    /\ calls[r] # <<>>

\* C14: under any interleaving of the requests, with failures and
\* cancellations at any await, every cache entry is a complete result of a
\* run for its own URL; the cache changes only in the step in which a request
\* returns from its last await, and then only the entry of that request's URL
\* changes, to that request's result; a request that misses the cache starts
\* the pipeline even when another request for the same URL is in flight; and
\* when two requests for one URL have both run the pipeline to its end, the
\* cache holds the result of one of them.
C14_CacheHoldsCompleteRuns ==
  /\ [](\A u \in DOMAIN cache : cache[u].value \in ConcResults(u))
  /\ [][cache' # cache =>
          \E r \in Reqs :
            /\ Finishes(r)
            /\ out'[r] \in ConcResults(github_url[r])
            /\ github_url[r] \in DOMAIN cache'
            /\ cache'[github_url[r]].value = out'[r]
            /\ \A u \in DOMAIN cache' \ {github_url[r]} :
                 u \in DOMAIN cache /\ cache'[u] = cache[u]]_vars
  /\ [][\A r \in Reqs :
          (pc[r] = "off" /\ pc'[r] # "off" /\ ~CacheHas(cache, github_url'[r], now)
             /\ parse_repo_url(github_url'[r]).raised = "") =>
            /\ pc'[r] = "get_repo"
            /\ calls'[r] = <<Call("get_repo", RepoArg(github_url'[r]))>>]_vars
  /\ [](\A u \in ConcUrls :
          BothRan(u) => u \in DOMAIN cache /\ cache[u].value \in {out[r] : r \in Reqs})

\* two requests for one URL missed the cache, ran side by side and ended with
\* two different results; the cache holds the first one's
C14_Witness ==
  /\ BothRan(UrlWidget)
  /\ out[1] # out[2]
  /\ cache[UrlWidget].value = out[1]
  /\ arrivals = MaxConcArrivals

(***************************************************************************)
(* C15: the budgeted fetch loop                                            *)
(***************************************************************************)

\* this step of request r issues get_file
IssuesGetFile(r) ==
  /\ Len(calls'[r]) = Len(calls[r]) + 1
  /\ calls'[r][Len(calls'[r])].op = "get_file"

\* the fetch of this step adds nothing to the selection
NothingSelected(r) == IssuesGetFile(r) /\ selected'[r] = selected[r]

\* the scan goes on with the next candidate
ScanContinues(r) == pc'[r] = "loop" /\ idx'[r] = idx[r] + 1

\* get_file goes out only below both limits
IssuedWithinLimits(r) ==
  IssuesGetFile(r) =>
    /\ Len(selected[r]) < max_files
    /\ total_chars[r] < max_total_context_chars

\* C15: get_file is never issued once the selection holds max_files entries
\* or the running total has reached max_total_context_chars; a candidate
\* whose fetch yields no usable file leaves the selection and the running
\* total as they are and the scan continues with the next candidate; the
\* running total is always the sum of the lengths of the selected contents.
C15_BudgetedFetchLoop ==
  /\ [](\A r \in Reqs : total_chars[r] = SumLen(selected[r]))
  /\ [][\A r \in Reqs :
          /\ IssuedWithinLimits(r)
          /\ NothingSelected(r) =>
               total_chars'[r] = total_chars[r] /\ ScanContinues(r)]_vars

\* the same, for the fetches that do not fail in transport
C15_UnlessTransportFails ==
  /\ [](\A r \in Reqs : total_chars[r] = SumLen(selected[r]))
  /\ [][\A r \in Reqs :
          /\ IssuedWithinLimits(r)
          /\ (NothingSelected(r) /\ raised'[r] = "") =>
               total_chars'[r] = total_chars[r] /\ ScanContinues(r)]_vars

\* a fetch was skipped and a later candidate was selected
C15_SkippedThenSelected ==
  \E r \in Reqs :
    /\ skips[r] > 0
    /\ selected[r] # <<>>
    /\ selected[r][Len(selected[r])].path = calls[r][Len(calls[r])].arg
    /\ total_chars[r] > 0

(***************************************************************************)
(* C16: the order of the selection                                         *)
(***************************************************************************)

\* the rank of the branch of score_path that gave this reason: 1 for the
\* important basenames, down to 5 for the baseline
TierOf(reason) ==
  IF reason = "Key project/config file" THEN 1
  ELSE IF reason = "Documentation" THEN 2
  ELSE IF reason = "Main source directory" THEN 3
  ELSE IF reason = "Tests" THEN 4
  ELSE 5

\* the position of path in the listing the request was given
PosInTree(r, path) ==
  CHOOSE i \in 1..Len(tree_items[r]) : tree_items[r][i].path = path

\* the score score_path gives the selected path, with its size in the listing
ScoreInTree(r, path) ==
  score_path(path, tree_items[r][PosInTree(r, path)].size)[1]

\* the positions of selected that the loop filled from candidates other than
\* README files
NonReadme(r) == {i \in 1..Len(selected[r]) : selected[r][i].reason # "README"}

\* C16: among the non-README entries of the selection no entry of a lower
\* tier of the cascade (important basename, docs, src/app/apps, tests/test,
\* baseline) comes before an entry of a higher tier, and entries of equal
\* score are in the order of the tree listing.
C16_PrecedenceCascade ==
  \A r \in Reqs : \A i, j \in NonReadme(r) :
    i < j =>
      /\ TierOf(selected[r][i].reason) <= TierOf(selected[r][j].reason)
      /\ ScoreInTree(r, selected[r][i].path) = ScoreInTree(r, selected[r][j].path)
           => PosInTree(r, selected[r][i].path) < PosInTree(r, selected[r][j].path)

\* the order the sort does give: descending by score, ties in tree order
C16_DescendingByScore ==
  \A r \in Reqs : \A i, j \in NonReadme(r) :
    i < j =>
      /\ ScoreInTree(r, selected[r][i].path) >= ScoreInTree(r, selected[r][j].path)
      /\ ScoreInTree(r, selected[r][i].path) = ScoreInTree(r, selected[r][j].path)
           => PosInTree(r, selected[r][i].path) < PosInTree(r, selected[r][j].path)

\* entries of four tiers have been selected
C16_FourTiers ==
  \E r \in Reqs :
    Cardinality({TierOf(selected[r][i].reason) : i \in NonReadme(r)}) >= 4

(***************************************************************************)
(* parse_repo_url called on its own                                        *)
(***************************************************************************)

ParseSchemes == {"http://", "https://"}
ParseOwners == {"acme", "a-b"}

\* repository names: some end in one of the characters of ".git", some do not
ParseRepos ==
  { "widget", "gadget", "repo", "lib", "tig", "git", "my.repo", "x.g",
    "rust", "go", "a", "node.js" }

\* what may follow the name: nothing, a path, a query, a fragment
ParseSuffixes == {"", "/", "/tree/main", "?tab=readme", "#readme"}

ParseCall(scheme, owner, repo, dotgit, suffix) ==
  [op    |-> "parse_repo_url",
   url   |-> scheme \o "github.com/" \o owner \o "/" \o repo \o dotgit \o suffix,
   owner |-> owner,
   repo  |-> repo]

ParseCalls ==
  { ParseCall(s, o, n, g, x) :
      s \in ParseSchemes, o \in ParseOwners, n \in ParseRepos,
      g \in {"", ".git"}, x \in ParseSuffixes }

\* parse_repo_url(url) returns or raises
ParseReturns ==
  /\ fun_pc = "called"
  /\ fun_args.op = "parse_repo_url"
  /\ fun_ret' = parse_repo_url(fun_args.url)
  /\ fun_pc' = "returned"
  /\ UNCHANGED <<pc, selVars, calls, skips, raised, fun_args, svcVars>>

InitParse ==
  /\ NoRequests
  /\ fun_pc = "called"
  /\ fun_args \in ParseCalls
  /\ fun_ret = <<>>

NextParse == ParseReturns

SpecParse == InitParse /\ [][NextParse]_vars

\* C17: for every URL http(s)://github.com/OWNER/REPO, with or without
\* ".git" and a path, query or fragment after it, parse_repo_url returns
\* (OWNER, REPO), whatever characters the repository name ends in.
C17_ParseReturnsOwnerRepo ==
  fun_pc = "returned" =>
    /\ fun_ret.raised = ""
    /\ fun_ret.val = <<fun_args.owner, fun_args.repo>>

\* the same for the names that do not end in '.', 'g', 'i' or 't'
C17_ExactUnlessTrailing ==
  (fun_pc = "returned"
     /\ Ch(fun_args.repo, Len(fun_args.repo)) \notin {".", "g", "i", "t"}) =>
    /\ fun_ret.raised = ""
    /\ fun_ret.val = <<fun_args.owner, fun_args.repo>>

\* a name that ends in 't' has come back shorter
C17_Shortened ==
  /\ fun_pc = "returned"
  /\ fun_args.repo = "widget"
  /\ fun_ret.val = <<"acme", "widge">>

(***************************************************************************)
(* C18: the structure hint                                                 *)
(***************************************************************************)

\* the paths of the whole listing handed to selection, directories included
EveryPath(items) ==
  LET kept == SelectSeq(items, LAMBDA it : it.path # "")
  IN  [i \in 1..Len(kept) |-> kept[i].path]

\* select_and_load_files of request r has built its hint
HintBuilt(r) == structure_hint[r] # <<>>

CouldNotInfer == T("Top-level layout: (could not infer)")

\* C18: the structure hint counts the top-level segments of every path of
\* the listing handed to selection, directory entries included (so after the
\* fallback the root-level directories are counted like the files, up to the
\* cut at the 8 most frequent), and it reads "(could not infer)" only when
\* the listing has no path.
C18_HintCountsWholeListing ==
  \A r \in Reqs :
    HintBuilt(r) =>
      /\ structure_hint[r] = build_structure_hint(EveryPath(tree_items[r]))
      /\ structure_hint[r] = CouldNotInfer => EveryPath(tree_items[r]) = <<>>

\* what the code counts: the paths of the file entries only
C18_HintCountsFiles ==
  \A r \in Reqs :
    HintBuilt(r) =>
      /\ structure_hint[r] = build_structure_hint(AllPaths(tree_items[r]))
      /\ structure_hint[r] = CouldNotInfer => AllPaths(tree_items[r]) = <<>>

\* after the fallback the listing holds a directory and the hint is built
C18_FallbackWithDirectory ==
  \E r \in Reqs :
    /\ FellBack(r)
    /\ HintBuilt(r)
    /\ \E i \in 1..Len(tree_items[r]) : tree_items[r][i].type = "tree"

====
